---- MODULE Spec2Model ----
(***************************************************************************)
(* Flask-JWT-Extended: token issuance, extraction, decoding, the           *)
(* authentication decorators and the blacklist (revocation ledger).        *)
(*                                                                         *)
(* Python values are modelled as tagged records, so that a claim of the    *)
(* wrong type is a value the model can hold:                               *)
(*   None            [t |-> "none"]                                        *)
(*   str             [t |-> "str",  s |-> <sequence of chunks>]            *)
(*   bool            [t |-> "bool", b |-> TRUE]                            *)
(*   int             [t |-> "int",  n |-> 7]                               *)
(*   datetime        [t |-> "datetime", ticks |-> 5]                       *)
(*   dict            [t |-> "dict", d |-> <<>>]                            *)
(* A dict with string keys (token_data, the decoded payload) is a TLA+     *)
(* function on the set of its keys.  A call either returns a value,        *)
(* [ok |-> TRUE, val |-> v], or raises, [ok |-> FALSE, err |-> name].      *)
(***************************************************************************)
EXTENDS Integers, Sequences, FiniteSets, TLC

VARIABLES
    config,   \* flask_jwt_extended.config.config, read on every call
    store,    \* the blacklist store: jti |-> [token, revoked]
    now,      \* the clock, in ticks (datetime.datetime.utcnow())
    uuid,     \* number of uuid.uuid4() values drawn so far
    issued,   \* the encoded tokens handed out so far
    ledger,   \* history: "revoked" for a jti whose last completed ledger
              \* operation is a revoke, "active" after an issue or an unrevoke
    last,     \* the last operation: its input, outcome and request context
    threads   \* the requests in progress, one per worker thread: where each
              \* stands between its calls of the store (empty while requests
              \* are served one at a time)

vars == <<config, store, now, uuid, issued, ledger, last, threads>>

-----------------------------------------------------------------------------
(* Bounds of the model *)

MaxTokens == 3
TicksPerSecond == 2
MaxNow == 4
AccessExpires == 1
RefreshExpires == 2

\* The time, in seconds, a store with ttl support keeps a record beyond the
\* lifetime of its token
GraceWindow == 1

-----------------------------------------------------------------------------
(* Python values *)

PyNone == [t |-> "none"]
PyBool(b) == [t |-> "bool", b |-> b]
PyInt(n) == [t |-> "int", n |-> n]
PyDictOf(items) == [t |-> "dict", d |-> items]
PyDict == PyDictOf(<<>>)
PyDatetime(n) == [t |-> "datetime", ticks |-> n]

\* LET x == v IN F(x), with v computed a single time
With(v, F(_)) == CHOOSE y \in {F(x) : x \in {v}} : TRUE

Ok(v) == [ok |-> TRUE, val |-> v]
Raise(e) == [ok |-> FALSE, err |-> e]

EmptyDict == [k \in {} |-> PyNone]

\* d.get(k, None)
Get(d, k) == IF k \in DOMAIN d THEN d[k] ELSE PyNone

\* d[k] = v
Put(d, k, v) == [x \in DOMAIN d \cup {k} |-> IF x = k THEN v ELSE d[x]]

\* isinstance(v, six.string_types), isinstance(v, bool), isinstance(v, dict)
IsStr(v) == v.t = "str"
IsBool(v) == v.t = "bool"
IsDict(v) == v.t = "dict"

\* `not v` for the values a header, a cookie or a claim can hold
Falsy(v) ==
    \/ v.t = "none"
    \/ v.t = "str" /\ v.s = <<>>
    \/ v.t = "bool" /\ ~v.b
    \/ v.t = "int" /\ v.n = 0

(* The content of a str is a sequence of chunks: a run of whitespace, a    *)
(* word, or an encoded JWT.  "" is the empty sequence.                      *)
Space == [sp |-> TRUE]
Word(w) == [text |-> w]
Wire(chunks) == [t |-> "str", s |-> chunks]
PyStr(w) == Wire(IF w = "" THEN <<>> ELSE <<Word(w)>>)

\* str.split(): the maximal runs of non-whitespace, each a str
Split(v) ==
    LET w == SelectSeq(v.s, LAMBDA c : c # Space)
    IN  [i \in 1..Len(w) |-> Wire(<<w[i]>>)]

\* safe_str_cmp(a, b): equality of two strings
safe_str_cmp(a, b) == a.s = b.s

-----------------------------------------------------------------------------
(* Time: utcnow() has sub-second resolution, a JWT timestamp is whole       *)
(* seconds.                                                                 *)

\* calendar.timegm(dt.utctimetuple()): a datetime truncated to seconds
timegm(dt) == PyInt(dt.ticks \div TicksPerSecond)

\* Mutant: the delta is added in the clock's own unit, not in seconds
AddDelta_in_ticks(dt, secs) == PyDatetime(dt.ticks + secs)

\* datetime + timedelta(seconds = secs)
AddDelta(dt, secs) == PyDatetime(dt.ticks + secs * TicksPerSecond)

\* datetime.datetime.utcnow()
utcnow == PyDatetime(now)

-----------------------------------------------------------------------------
(* Claims codec *)

\* The JSON payload PyJWT signs: datetimes become whole seconds
JsonPayload(token_data) ==
    [k \in DOMAIN token_data |->
        IF token_data[k].t = "datetime" THEN timegm(token_data[k]) ELSE token_data[k]]

\* Mutant: the csrf claim does not make it into the signed payload
jwt_encode_without_csrf(token_data, secret) ==
    Wire(<<[sig |-> secret,
            payload |-> [k \in DOMAIN token_data \ {"csrf"} |-> JsonPayload(token_data)[k]]]>>)

\* jwt.encode(token_data, secret, algorithm).decode('utf-8')
jwt_encode(token_data, secret) ==
    Wire(<<[sig |-> secret, payload |-> JsonPayload(token_data)]>>)

\* Whether a str is one well-formed encoded JWT
IsJwt(token) == Len(token.s) = 1 /\ "sig" \in DOMAIN token.s[1]

\* PyJWT's `exp < now` on whole seconds: a token is still accepted during the
\* second its exp names
Expired(exp) == exp.n < timegm(utcnow).n

\* jwt.decode(token, secret, algorithm=algorithm): the signature first, then
\* nbf, then exp
jwt_decode(token, secret) ==
    IF ~IsJwt(token) THEN Raise("DecodeError")
    ELSE IF token.s[1].sig # secret THEN Raise("DecodeError")
    ELSE With(token.s[1].payload, LAMBDA payload :
         IF "nbf" \in DOMAIN payload /\ payload["nbf"].t # "int"
         THEN Raise("DecodeError")
         ELSE IF "nbf" \in DOMAIN payload /\ payload["nbf"].n > timegm(utcnow).n
         THEN Raise("ImmatureSignatureError")
         ELSE IF "exp" \in DOMAIN payload /\ payload["exp"].t # "int"
         THEN Raise("DecodeError")
         ELSE IF "exp" \in DOMAIN payload /\ Expired(payload["exp"])
         THEN Raise("ExpiredSignatureError")
         ELSE Ok(payload))

\* The checks of the custom claims, on the payload jwt.decode returned
CustomClaims(data) ==
    IF "jti" \notin DOMAIN data \/ ~IsStr(data["jti"])
    THEN Raise("JWTDecodeError")
    ELSE IF "identity" \notin DOMAIN data
    THEN Raise("JWTDecodeError")
    ELSE IF "type" \notin DOMAIN data
            \/ data["type"] \notin {PyStr("refresh"), PyStr("access")}
    THEN Raise("JWTDecodeError")
    ELSE IF data["type"] = PyStr("access")
            /\ ("fresh" \notin DOMAIN data \/ ~IsBool(data["fresh"]))
    THEN Raise("JWTDecodeError")
    ELSE IF data["type"] = PyStr("access")
            /\ ("user_claims" \notin DOMAIN data \/ ~IsDict(data["user_claims"]))
    THEN Raise("JWTDecodeError")
    ELSE Ok(data)

_decode_jwt(token, secret) ==
    With(jwt_decode(token, secret), LAMBDA r : IF ~r.ok THEN r ELSE CustomClaims(r.val))

-----------------------------------------------------------------------------
(* Token extractor.  A request is [method, headers, cookies]; headers and   *)
(* cookies are dicts from names to str.                                     *)

\* The checks of the header's shape, on the header's parts
HeaderParts(parts, header_type) ==
    IF Falsy(header_type)
    THEN IF Len(parts) # 1 THEN Raise("InvalidHeaderError")
         ELSE _decode_jwt(parts[1], config.secret_key)
    ELSE IF Len(parts) = 0 THEN Raise("IndexError")
         ELSE IF parts[1] # header_type \/ Len(parts) # 2
         THEN Raise("InvalidHeaderError")
         ELSE _decode_jwt(parts[2], config.secret_key)

_decode_jwt_from_headers(request, type) ==
    With(Get(request.headers, IF type = "access" THEN config.access_header_name
                              ELSE config.refresh_header_name),
         LAMBDA jwt_header :
         IF Falsy(jwt_header) THEN Raise("NoAuthorizationError")
         ELSE With(Split(jwt_header), LAMBDA parts : HeaderParts(parts, config.header_type)))

\* Mutant: a request without the CSRF header passes the double submit check
CsrfCheck_header_optional(request, csrf_header_key, token) ==
    IF config.cookie_csrf_protect /\ request.method \in config.csrf_request_methods
    THEN With(<<Get(request.headers, csrf_header_key), Get(token, "csrf")>>, LAMBDA p :
         IF p[2] = PyNone THEN Raise("JWTDecodeError")
         ELSE IF ~IsStr(p[2]) THEN Raise("JWTDecodeError")
         ELSE IF p[1] = PyNone THEN Ok(token)
         ELSE IF ~safe_str_cmp(p[1], p[2]) THEN Raise("CSRFError")
         ELSE Ok(token))
    ELSE Ok(token)

\* Mutant: a token without the csrf claim is reported as a CSRF failure
CsrfCheck_claim_is_csrf(request, csrf_header_key, token) ==
    IF config.cookie_csrf_protect /\ request.method \in config.csrf_request_methods
    THEN With(<<Get(request.headers, csrf_header_key), Get(token, "csrf")>>, LAMBDA p :
         IF p[2] = PyNone THEN Raise("CSRFError")
         ELSE IF ~IsStr(p[2]) THEN Raise("JWTDecodeError")
         ELSE IF p[1] = PyNone THEN Raise("CSRFError")
         ELSE IF ~safe_str_cmp(p[1], p[2]) THEN Raise("CSRFError")
         ELSE Ok(token))
    ELSE Ok(token)

\* Mutant: the double submit check is made whatever the request's method
CsrfCheck_any_method(request, csrf_header_key, token) ==
    IF config.cookie_csrf_protect
    THEN With(<<Get(request.headers, csrf_header_key), Get(token, "csrf")>>, LAMBDA p :
         IF p[2] = PyNone THEN Raise("JWTDecodeError")
         ELSE IF ~IsStr(p[2]) THEN Raise("JWTDecodeError")
         ELSE IF p[1] = PyNone THEN Raise("CSRFError")
         ELSE IF ~safe_str_cmp(p[1], p[2]) THEN Raise("CSRFError")
         ELSE Ok(token))
    ELSE Ok(token)

\* The CSRF double submit check, on the decoded cookie token
CsrfCheck(request, csrf_header_key, token) ==
    IF config.cookie_csrf_protect /\ request.method \in config.csrf_request_methods
    THEN With(<<Get(request.headers, csrf_header_key), Get(token, "csrf")>>, LAMBDA p :
         \* p[1] is csrf_token_from_header, p[2] is csrf_token_from_cookie
         IF p[2] = PyNone THEN Raise("JWTDecodeError")
         ELSE IF ~IsStr(p[2]) THEN Raise("JWTDecodeError")
         ELSE IF p[1] = PyNone THEN Raise("CSRFError")
         ELSE IF ~safe_str_cmp(p[1], p[2]) THEN Raise("CSRFError")
         ELSE Ok(token))
    ELSE Ok(token)

_decode_jwt_from_cookies(request, type) ==
    With(Get(request.cookies, IF type = "access" THEN config.access_cookie_name
                              ELSE config.refresh_cookie_name),
         LAMBDA cookie :
         IF Falsy(cookie) THEN Raise("NoAuthorizationError")
         ELSE With(_decode_jwt(cookie, config.secret_key), LAMBDA r :
              IF ~r.ok THEN r
              ELSE CsrfCheck(request,
                             IF type = "access" THEN config.access_csrf_header_name
                             ELSE config.refresh_csrf_header_name,
                             r.val)))

\* Mutant: the cookie is tried before the header
_decode_jwt_from_request_cookie_first(request, type) ==
    IF "headers" \in config.token_location /\ "cookies" \in config.token_location
    THEN With(_decode_jwt_from_cookies(request, type), LAMBDA c :
         IF c.ok \/ c.err # "NoAuthorizationError" THEN c
         ELSE With(_decode_jwt_from_headers(request, type), LAMBDA h :
              IF h.ok \/ h.err # "NoAuthorizationError" THEN h
              ELSE Raise("NoAuthorizationError")))
    ELSE IF "headers" \in config.token_location
    THEN _decode_jwt_from_headers(request, type)
    ELSE _decode_jwt_from_cookies(request, type)

\* Mutant: any failure of one location falls through to the next
_decode_jwt_from_request_any_failure(request, type) ==
    IF "headers" \in config.token_location /\ "cookies" \in config.token_location
    THEN With(_decode_jwt_from_headers(request, type), LAMBDA h :
         IF h.ok THEN h
         ELSE With(_decode_jwt_from_cookies(request, type), LAMBDA c :
              IF c.ok THEN c
              ELSE Raise("NoAuthorizationError")))
    ELSE IF "headers" \in config.token_location
    THEN _decode_jwt_from_headers(request, type)
    ELSE _decode_jwt_from_cookies(request, type)

_decode_jwt_from_request(request, type) ==
    IF "headers" \in config.token_location /\ "cookies" \in config.token_location
    THEN With(_decode_jwt_from_headers(request, type), LAMBDA h :
         IF h.ok \/ h.err # "NoAuthorizationError" THEN h
         ELSE With(_decode_jwt_from_cookies(request, type), LAMBDA c :
              IF c.ok \/ c.err # "NoAuthorizationError" THEN c
              ELSE Raise("NoAuthorizationError")))
    ELSE IF "headers" \in config.token_location
    THEN _decode_jwt_from_headers(request, type)
    ELSE _decode_jwt_from_cookies(request, type)

-----------------------------------------------------------------------------
(* Revocation ledger (flask_jwt_extended.blacklist).  A stored record is    *)
(* [token |-> the claims payload, revoked |-> BOOLEAN], keyed by the jti.   *)

\* The ledger is usable: enabled, with a store and a valid check scope
\* Mutant: the store is not looked at
BlacklistConfigured_store_unchecked ==
    /\ config.blacklist_enabled
    /\ config.blacklist_checks \in {"all", "refresh"}

BlacklistConfigured ==
    /\ config.blacklist_enabled
    /\ config.blacklist_store # "None"
    /\ config.blacklist_checks \in {"all", "refresh"}

\* The configured store takes a time to live with a put
_store_supports_ttl == config.blacklist_store = "RedisStore"

\* store.put(key, value, ttl_secs): the instant from which the store may drop
\* the record, none when the store keeps no time to live
PutUntil(ttl) == IF _store_supports_ttl THEN {now + ttl} ELSE {}

\* The configured store cannot be reached: each of its calls fails
StoreUnavailable == config.blacklist_store = "Unreachable"

\* Mutant: the record keeps the jti of the token and none of its other claims
store_token_jti_only(st, token_data, revoked) ==
    IF ~BlacklistConfigured THEN [ok |-> FALSE, err |-> "RuntimeError", store |-> st]
    ELSE IF StoreUnavailable THEN [ok |-> FALSE, err |-> "StoreUnavailableError", store |-> st]
    ELSE [ok |-> TRUE, err |-> "",
          store |-> Put(st, token_data["jti"],
                        [token |-> Put(EmptyDict, "jti", token_data["jti"]),
                         revoked |-> revoked,
                         until |-> PutUntil((JsonPayload(token_data)["exp"].n
                                             - JsonPayload(token_data)["iat"].n
                                             + GraceWindow) * TicksPerSecond)])]

\* store_token(token, revoked): the outcome and the store after the put
store_token(st, token_data, revoked) ==
    IF ~BlacklistConfigured THEN [ok |-> FALSE, err |-> "RuntimeError", store |-> st]
    ELSE IF StoreUnavailable THEN [ok |-> FALSE, err |-> "StoreUnavailableError", store |-> st]
    ELSE [ok |-> TRUE, err |-> "",
          store |-> Put(st, token_data["jti"],
                        [token |-> JsonPayload(token_data), revoked |-> revoked,
                         until |-> PutUntil((JsonPayload(token_data)["exp"].n
                                             - JsonPayload(token_data)["iat"].n
                                             + GraceWindow) * TicksPerSecond)])]

\* Whether the check scope covers a token of this type
InScope(token_type) ==
    \/ token_type = PyStr("refresh")
    \/ token_type = PyStr("access") /\ config.blacklist_checks = "all"

\* check_if_token_revoked(token): the outcome and the keys read from the store
check_if_token_revoked(token) ==
    IF ~BlacklistConfigured THEN [ok |-> FALSE, err |-> "RuntimeError", gets |-> {}]
    ELSE IF ~InScope(token["type"]) THEN [ok |-> TRUE, err |-> "", gets |-> {}]
    ELSE LET jti == token["jti"] IN
         IF StoreUnavailable
         THEN [ok |-> FALSE, err |-> "StoreUnavailableError", gets |-> {jti}]
         ELSE IF jti \notin DOMAIN store
         THEN [ok |-> FALSE, err |-> "RevokedTokenError", gets |-> {jti}]
         ELSE IF store[jti].revoked
         THEN [ok |-> FALSE, err |-> "RevokedTokenError", gets |-> {jti}]
         ELSE [ok |-> TRUE, err |-> "", gets |-> {jti}]

\* Mutant: the difference as it is, below zero once the token has expired
_get_token_ttl_unfloored(token) == token["exp"].n * TicksPerSecond - now

\* _get_token_ttl(token): the time left until the token's exp, in ticks
_get_token_ttl(token) ==
    IF now >= token["exp"].n * TicksPerSecond
    THEN 0
    ELSE token["exp"].n * TicksPerSecond - now

\* Mutant: the record is put back with the grace window alone as its time to
\* live
_update_token_grace_only(jti, revoked) ==
    IF ~BlacklistConfigured THEN [ok |-> FALSE, err |-> "RuntimeError", store |-> store]
    ELSE IF StoreUnavailable
    THEN [ok |-> FALSE, err |-> "StoreUnavailableError", store |-> store]
    ELSE IF jti \notin DOMAIN store
    THEN [ok |-> FALSE, err |-> "KeyError", store |-> store]
    ELSE [ok |-> TRUE, err |-> "",
          store |-> Put(store, jti,
                        [token |-> store[jti].token, revoked |-> revoked,
                         until |-> PutUntil(GraceWindow * TicksPerSecond)])]

\* _update_token(jti, revoked): the outcome and the store after it
_update_token(jti, revoked) ==
    IF ~BlacklistConfigured THEN [ok |-> FALSE, err |-> "RuntimeError", store |-> store]
    ELSE IF StoreUnavailable
    THEN [ok |-> FALSE, err |-> "StoreUnavailableError", store |-> store]
    ELSE IF jti \notin DOMAIN store
    THEN [ok |-> FALSE, err |-> "KeyError", store |-> store]
    ELSE [ok |-> TRUE, err |-> "",
          store |-> Put(store, jti,
                        [token |-> store[jti].token, revoked |-> revoked,
                         until |-> PutUntil(_get_token_ttl(store[jti].token)
                                            + GraceWindow * TicksPerSecond)])]

revoke_token(jti) == _update_token(jti, TRUE)

unrevoke_token(jti) == _update_token(jti, FALSE)

\* A stored record as the listings return it, with its time to live
Listed(jti) ==
    [token |-> store[jti].token, revoked |-> store[jti].revoked,
     ttl |-> _get_token_ttl(store[jti].token)]

\* What a read of the ledger raises before it reads, "" when nothing
ReadError ==
    IF ~BlacklistConfigured THEN "RuntimeError"
    ELSE IF StoreUnavailable THEN "StoreUnavailableError"
    ELSE ""

\* get_all_stored_tokens(): the outcome, the records and the keys read
get_all_stored_tokens ==
    IF ReadError # "" THEN [ok |-> FALSE, err |-> ReadError, val |-> {}, gets |-> {}]
    ELSE [ok |-> TRUE, err |-> "",
          val |-> {Listed(jti) : jti \in DOMAIN store}, gets |-> DOMAIN store]

\* Mutant: the listing of one identity returns every record
get_stored_tokens_unfiltered(identity) == get_all_stored_tokens

\* get_stored_tokens(identity): the records whose token has this identity
get_stored_tokens(identity) ==
    IF ReadError # "" THEN [ok |-> FALSE, err |-> ReadError, val |-> {}, gets |-> {}]
    ELSE [ok |-> TRUE, err |-> "",
          val |-> {Listed(jti) : jti \in {k \in DOMAIN store :
                                            store[k].token["identity"] = identity}},
          gets |-> DOMAIN store]

\* The record of a jti as the store holds it
_get_token_from_store(jti) ==
    IF jti \notin DOMAIN store
    THEN [ok |-> FALSE, err |-> "KeyError", val |-> {}, gets |-> {jti}]
    ELSE [ok |-> TRUE, err |-> "",
          val |-> {[token |-> store[jti].token, revoked |-> store[jti].revoked]},
          gets |-> {jti}]

\* Mutant: only the jti argument is looked at
get_stored_token_jti_only(jti, encoded_token) ==
    IF ReadError # "" THEN [ok |-> FALSE, err |-> ReadError, val |-> {}, gets |-> {}]
    ELSE IF jti = PyNone
    THEN [ok |-> FALSE, err |-> "ValueError", val |-> {}, gets |-> {}]
    ELSE _get_token_from_store(jti)

\* get_stored_token(jti=None, encoded_token=None): the record of one token,
\* named by its jti or by the encoded token that carries the jti
get_stored_token(jti, encoded_token) ==
    IF ReadError # "" THEN [ok |-> FALSE, err |-> ReadError, val |-> {}, gets |-> {}]
    ELSE IF jti = PyNone /\ encoded_token = PyNone
    THEN [ok |-> FALSE, err |-> "ValueError", val |-> {}, gets |-> {}]
    ELSE IF encoded_token # PyNone
    THEN _get_token_from_store(encoded_token.s[1].payload["jti"])
    ELSE _get_token_from_store(jti)

-----------------------------------------------------------------------------
(* Request authenticator: the three decorators.  A pass ends with           *)
(* [err, jwt, called, gets]: the exception raised ("" when none),           *)
(* ctx_stack.top.jwt, whether the view function was called, and the keys    *)
(* the revocation check read.                                               *)

Rejected(e, g) == [err |-> e, jwt |-> EmptyDict, called |-> FALSE, gets |-> g]
Authenticated(jwt_data, g) == [err |-> "", jwt |-> jwt_data, called |-> TRUE, gets |-> g]

\* Mutant: the check is made only under the scope 'all', the condition of
\* _encode_access_token
RevocationCheck_all_only(jwt_data) ==
    IF config.blacklist_enabled /\ config.blacklist_checks = "all"
    THEN check_if_token_revoked(jwt_data)
    ELSE [ok |-> TRUE, err |-> "", gets |-> {}]

\* Mutant: a token is turned away as soon as any record is revoked
RevocationCheck_any_revoked(jwt_data) ==
    IF config.blacklist_enabled /\ BlacklistConfigured /\ ~StoreUnavailable
       /\ \E jti \in DOMAIN store : store[jti].revoked
    THEN [ok |-> FALSE, err |-> "RevokedTokenError", gets |-> DOMAIN store]
    ELSE IF config.blacklist_enabled THEN check_if_token_revoked(jwt_data)
    ELSE [ok |-> TRUE, err |-> "", gets |-> {}]

\* Mutant: a token whose jti has no record is let through
RevocationCheck_unknown_passes(jwt_data) ==
    IF config.blacklist_enabled /\ BlacklistConfigured /\ ~StoreUnavailable
       /\ jwt_data["jti"] \notin DOMAIN store
    THEN [ok |-> TRUE, err |-> "", gets |-> {jwt_data["jti"]}]
    ELSE IF config.blacklist_enabled THEN check_if_token_revoked(jwt_data)
    ELSE [ok |-> TRUE, err |-> "", gets |-> {}]

\* Mutant: only a refresh token is looked up in the blacklist
RevocationCheck_refresh_only(jwt_data) ==
    IF config.blacklist_enabled /\ jwt_data["type"] = PyStr("refresh")
    THEN check_if_token_revoked(jwt_data)
    ELSE [ok |-> TRUE, err |-> "", gets |-> {}]

\* `if config.blacklist_enabled: check_if_token_revoked(jwt_data)`
RevocationCheck(jwt_data) ==
    IF config.blacklist_enabled THEN check_if_token_revoked(jwt_data)
    ELSE [ok |-> TRUE, err |-> "", gets |-> {}]

\* Mutant: the jwt is saved in the context before the blacklist is checked
jwt_required_bound_early(request) ==
    With(_decode_jwt_from_request(request, "access"), LAMBDA d :
    IF ~d.ok THEN Rejected(d.err, {})
    ELSE IF d.val["type"] # PyStr("access") THEN Rejected("WrongTokenError", {})
    ELSE With(RevocationCheck(d.val), LAMBDA c :
         IF ~c.ok THEN [err |-> c.err, jwt |-> d.val, called |-> FALSE, gets |-> c.gets]
         ELSE Authenticated(d.val, c.gets)))

\* Mutant: only a revoked token is turned away, any other failure of the
\* check lets the request through
jwt_required_fail_open(request) ==
    With(_decode_jwt_from_request(request, "access"), LAMBDA d :
    IF ~d.ok THEN Rejected(d.err, {})
    ELSE IF d.val["type"] # PyStr("access") THEN Rejected("WrongTokenError", {})
    ELSE With(RevocationCheck(d.val), LAMBDA c :
         IF ~c.ok /\ c.err = "RevokedTokenError" THEN Rejected(c.err, c.gets)
         ELSE Authenticated(d.val, c.gets)))

\* Mutant: the view is reached without the revocation check
jwt_required_unchecked(request) ==
    With(_decode_jwt_from_request(request, "access"), LAMBDA d :
    IF ~d.ok THEN Rejected(d.err, {})
    ELSE IF d.val["type"] # PyStr("access") THEN Rejected("WrongTokenError", {})
    ELSE Authenticated(d.val, {}))

jwt_required(request) ==
    With(_decode_jwt_from_request(request, "access"), LAMBDA d :
    IF ~d.ok THEN Rejected(d.err, {})
    ELSE IF d.val["type"] # PyStr("access") THEN Rejected("WrongTokenError", {})
    ELSE With(RevocationCheck(d.val), LAMBDA c :
         IF ~c.ok THEN Rejected(c.err, c.gets)
         ELSE Authenticated(d.val, c.gets)))

\* Mutant: the freshness of the token is looked at before the blacklist
fresh_jwt_required_fresh_first(request) ==
    With(_decode_jwt_from_request(request, "access"), LAMBDA d :
    IF ~d.ok THEN Rejected(d.err, {})
    ELSE IF d.val["type"] # PyStr("access") THEN Rejected("WrongTokenError", {})
    ELSE IF Falsy(d.val["fresh"]) THEN Rejected("FreshTokenRequired", {})
    ELSE With(RevocationCheck(d.val), LAMBDA c :
         IF ~c.ok THEN Rejected(c.err, c.gets)
         ELSE Authenticated(d.val, c.gets)))

\* Mutant: the freshness of the token is not looked at
fresh_jwt_required_any(request) ==
    With(_decode_jwt_from_request(request, "access"), LAMBDA d :
    IF ~d.ok THEN Rejected(d.err, {})
    ELSE IF d.val["type"] # PyStr("access") THEN Rejected("WrongTokenError", {})
    ELSE With(RevocationCheck(d.val), LAMBDA c :
         IF ~c.ok THEN Rejected(c.err, c.gets)
         ELSE Authenticated(d.val, c.gets)))

fresh_jwt_required(request) ==
    With(_decode_jwt_from_request(request, "access"), LAMBDA d :
    IF ~d.ok THEN Rejected(d.err, {})
    ELSE IF d.val["type"] # PyStr("access") THEN Rejected("WrongTokenError", {})
    ELSE With(RevocationCheck(d.val), LAMBDA c :
         IF ~c.ok THEN Rejected(c.err, c.gets)
         ELSE IF Falsy(d.val["fresh"]) THEN Rejected("FreshTokenRequired", c.gets)
         ELSE Authenticated(d.val, c.gets)))

\* Mutant: the type of the token is not looked at
jwt_refresh_token_required_any(request) ==
    With(_decode_jwt_from_request(request, "refresh"), LAMBDA d :
    IF ~d.ok THEN Rejected(d.err, {})
    ELSE With(RevocationCheck(d.val), LAMBDA c :
         IF ~c.ok THEN Rejected(c.err, c.gets)
         ELSE Authenticated(d.val, c.gets)))

jwt_refresh_token_required(request) ==
    With(_decode_jwt_from_request(request, "refresh"), LAMBDA d :
    IF ~d.ok THEN Rejected(d.err, {})
    ELSE IF d.val["type"] # PyStr("refresh") THEN Rejected("WrongTokenError", {})
    ELSE With(RevocationCheck(d.val), LAMBDA c :
         IF ~c.ok THEN Rejected(c.err, c.gets)
         ELSE Authenticated(d.val, c.gets)))

\* get_raw_jwt(), get_jwt_identity() on the context a pass left
get_raw_jwt(pass) == pass.jwt
get_jwt_identity(pass) == IF "identity" \in DOMAIN pass.jwt THEN pass.jwt["identity"] ELSE PyDict

-----------------------------------------------------------------------------
(* Token issuer.  An issuance returns the encoded token together with the   *)
(* store and the uuid count it leaves.                                      *)

\* str(uuid.uuid4()): the n-th value drawn, different from every other
uuid4(n) == PyStr("u" \o ToString(n))

\* json.dumps(user_claims) succeeds: no item is a non-JSON object
JsonSerializable(v) == \A i \in 1..Len(v.d) : v.d[i] # "object"

\* Mutant: the csrf claim is added whenever tokens may travel in cookies
CsrfInToken_cookies_only == "cookies" \in config.token_location

\* `'cookies' in config.token_location and config.cookie_csrf_protect is True`
CsrfInToken == "cookies" \in config.token_location /\ config.cookie_csrf_protect = TRUE

Failed(e, st, u) == [ok |-> FALSE, err |-> e, token |-> PyNone, store |-> st, uuid |-> u]
Issued(tok, st, u) == [ok |-> TRUE, err |-> "", token |-> tok, store |-> st, uuid |-> u]

\* The encoded token is returned once store_token has returned; what
\* store_token raises leaves the issuer
Registered(encoded_token, reg, u) ==
    IF reg.ok THEN Issued(encoded_token, reg.store, u) ELSE Failed(reg.err, reg.store, u)

\* token_data with the csrf claim added when tokens may travel in cookies
WithCsrf(token_data, u) == IF CsrfInToken THEN Put(token_data, "csrf", uuid4(u + 2)) ELSE token_data

\* The uuid count after the jti and, when added, the csrf value are drawn
Drawn(u) == IF CsrfInToken THEN u + 2 ELSE u + 1

\* Mutant: the access token is stored whenever the blacklist is enabled, the
\* condition of _encode_refresh_token
_encode_access_token_stored(st, u, identity, secret, token_expire_delta, fresh, user_claims) ==
    IF ~IsDict(user_claims) THEN Failed("JWTEncodeError", st, u)
    ELSE IF ~IsBool(fresh) THEN Failed("JWTEncodeError", st, u)
    ELSE IF ~JsonSerializable(user_claims) THEN Failed("JWTEncodeError", st, u)
    ELSE With(WithCsrf([exp |-> AddDelta(utcnow, token_expire_delta),
                        iat |-> utcnow,
                        nbf |-> utcnow,
                        jti |-> uuid4(u + 1),
                        identity |-> identity,
                        fresh |-> fresh,
                        type |-> PyStr("access"),
                        user_claims |-> user_claims], u),
              LAMBDA token_data :
              IF config.blacklist_enabled
              THEN Registered(jwt_encode(token_data, secret),
                              store_token(st, token_data, FALSE), Drawn(u))
              ELSE Issued(jwt_encode(token_data, secret), st, Drawn(u)))

\* Mutant: fresh is encoded whatever its type
_encode_access_token_fresh_unchecked(st, u, identity, secret, token_expire_delta, fresh, user_claims) ==
    IF ~IsDict(user_claims) THEN Failed("JWTEncodeError", st, u)
    ELSE IF ~JsonSerializable(user_claims) THEN Failed("JWTEncodeError", st, u)
    ELSE With(WithCsrf([exp |-> AddDelta(utcnow, token_expire_delta),
                        iat |-> utcnow,
                        nbf |-> utcnow,
                        jti |-> uuid4(u + 1),
                        identity |-> identity,
                        fresh |-> fresh,
                        type |-> PyStr("access"),
                        user_claims |-> user_claims], u),
              LAMBDA token_data :
              IF config.blacklist_enabled /\ config.blacklist_checks = "all"
              THEN Registered(jwt_encode(token_data, secret),
                              store_token(st, token_data, FALSE), Drawn(u))
              ELSE Issued(jwt_encode(token_data, secret), st, Drawn(u)))

_encode_access_token(st, u, identity, secret, token_expire_delta, fresh, user_claims) ==
    IF ~IsDict(user_claims) THEN Failed("JWTEncodeError", st, u)
    ELSE IF ~IsBool(fresh) THEN Failed("JWTEncodeError", st, u)
    ELSE IF ~JsonSerializable(user_claims) THEN Failed("JWTEncodeError", st, u)
    ELSE With(WithCsrf([exp |-> AddDelta(utcnow, token_expire_delta),
                        iat |-> utcnow,
                        nbf |-> utcnow,
                        jti |-> uuid4(u + 1),
                        identity |-> identity,
                        fresh |-> fresh,
                        type |-> PyStr("access"),
                        user_claims |-> user_claims], u),
              LAMBDA token_data :
              IF config.blacklist_enabled /\ config.blacklist_checks = "all"
              THEN Registered(jwt_encode(token_data, secret),
                              store_token(st, token_data, FALSE), Drawn(u))
              ELSE Issued(jwt_encode(token_data, secret), st, Drawn(u)))

\* Mutant: the refresh token carries a fresh claim, as the access token does
_encode_refresh_token_with_fresh(st, u, identity, secret, token_expire_delta) ==
    With(WithCsrf([exp |-> AddDelta(utcnow, token_expire_delta),
                   iat |-> utcnow,
                   nbf |-> utcnow,
                   jti |-> uuid4(u + 1),
                   identity |-> identity,
                   fresh |-> PyBool(FALSE),
                   type |-> PyStr("refresh")], u),
         LAMBDA token_data :
         IF config.blacklist_enabled
         THEN Registered(jwt_encode(token_data, secret),
                         store_token(st, token_data, FALSE), Drawn(u))
         ELSE Issued(jwt_encode(token_data, secret), st, Drawn(u)))

\* Mutant: the refresh token is encoded and never stored
_encode_refresh_token_unstored(st, u, identity, secret, token_expire_delta) ==
    With(WithCsrf([exp |-> AddDelta(utcnow, token_expire_delta),
                   iat |-> utcnow,
                   nbf |-> utcnow,
                   jti |-> uuid4(u + 1),
                   identity |-> identity,
                   type |-> PyStr("refresh")], u),
         LAMBDA token_data : Issued(jwt_encode(token_data, secret), st, Drawn(u)))

_encode_refresh_token(st, u, identity, secret, token_expire_delta) ==
    With(WithCsrf([exp |-> AddDelta(utcnow, token_expire_delta),
                   iat |-> utcnow,
                   nbf |-> utcnow,
                   jti |-> uuid4(u + 1),
                   identity |-> identity,
                   type |-> PyStr("refresh")], u),
         LAMBDA token_data :
         IF config.blacklist_enabled
         THEN Registered(jwt_encode(token_data, secret),
                         store_token(st, token_data, FALSE), Drawn(u))
         ELSE Issued(jwt_encode(token_data, secret), st, Drawn(u)))

\* The default callbacks of the JWTManager: no user claims, the identity as given
_user_claims_callback(identity) == PyDict
_user_identity_callback(identity) == identity

create_refresh_token(st, u, identity) ==
    _encode_refresh_token(st, u, _user_identity_callback(identity),
                          config.secret_key, config.refresh_expires)

create_access_token(st, u, identity, fresh) ==
    _encode_access_token(st, u, _user_identity_callback(identity), config.secret_key,
                         config.access_expires, fresh, _user_claims_callback(identity))

-----------------------------------------------------------------------------
(* Configuration and requests *)

\* The settings of the test application, with the library's defaults
TestConfig(enabled, checks) ==
    [secret_key |-> "super=secret",
     access_expires |-> AccessExpires,
     refresh_expires |-> RefreshExpires,
     token_location |-> {"headers"},
     access_header_name |-> "Authorization",
     refresh_header_name |-> "Authorization",
     header_type |-> PyStr("Bearer"),
     access_cookie_name |-> "access_token_cookie",
     refresh_cookie_name |-> "refresh_token_cookie",
     cookie_csrf_protect |-> TRUE,
     csrf_request_methods |-> {"POST", "PUT", "PATCH", "DELETE"},
     access_csrf_header_name |-> "X-CSRF-TOKEN",
     refresh_csrf_header_name |-> "X-CSRF-TOKEN",
     blacklist_enabled |-> enabled,
     blacklist_store |-> "DictStore",
     blacklist_checks |-> checks]

NoRequest == [method |-> "", headers |-> EmptyDict, cookies |-> EmptyDict]

\* _jwt_post(url, jwt): a POST with `Authorization: Bearer <jwt>`, or with no
\* header when no jwt is given
_jwt_post(jwt) ==
    [method |-> "POST",
     headers |-> IF Falsy(jwt) THEN EmptyDict
                 ELSE Put(EmptyDict, "Authorization",
                          Wire(<<Word("Bearer"), Space>> \o jwt.s)),
     cookies |-> EmptyDict]

\* What an operation leaves in `last`
Done(op, request, jti, pass) ==
    [op |-> op, request |-> request, jti |-> jti,
     prior |-> IF jti \in DOMAIN ledger THEN ledger[jti] ELSE "",
     err |-> pass.err, jwt |-> pass.jwt, called |-> pass.called, gets |-> pass.gets]

NoPass(e) == [err |-> e, jwt |-> EmptyDict, called |-> FALSE, gets |-> {}]

\* What a read of the ledger leaves in `last`: the outcome, and with it the
\* identity asked for and the records returned
Returned(op, jti, identity, r) ==
    [op |-> op, request |-> NoRequest, jti |-> jti,
     prior |-> IF jti \in DOMAIN ledger THEN ledger[jti] ELSE "",
     err |-> r.err, jwt |-> EmptyDict, called |-> FALSE, gets |-> r.gets,
     identity |-> identity, ret |-> r.val]

\* The jti inside an encoded token
JtiOf(encoded_token) == encoded_token.s[1].payload["jti"]

\* The history after a completed revoke_token(jti), unrevoke_token(jti)
LogRevoke(jti) == Put(ledger, jti, "revoked")
LogUnrevoke(jti) == Put(ledger, jti, "active")

-----------------------------------------------------------------------------
(* The routes of the test application, one action per request *)

\* POST /auth/login
\* with at most `max` tokens handed out, each drawing at most two uuids
LoginUpTo(username, max) ==
    /\ Cardinality(issued) + 2 <= max
    /\ uuid < 2 * max
    /\ \E a \in {create_access_token(store, uuid, PyStr(username), PyBool(TRUE))} :
       IF ~a.ok
       THEN /\ store' = a.store
            /\ uuid' = a.uuid
            /\ last' = Done("login", NoRequest, PyNone, NoPass(a.err))
            /\ UNCHANGED <<issued, ledger>>
       ELSE \E r \in {create_refresh_token(a.store, a.uuid, PyStr(username))} :
            IF ~r.ok
            THEN /\ store' = r.store
                 /\ uuid' = r.uuid
                 /\ last' = Done("login", NoRequest, PyNone, NoPass(r.err))
                 /\ UNCHANGED <<issued, ledger>>
            ELSE /\ store' = r.store
                 /\ uuid' = r.uuid
                 /\ issued' = issued \cup {a.token, r.token}
                 /\ ledger' = Put(Put(ledger, JtiOf(a.token), "active"),
                                  JtiOf(r.token), "active")
                 /\ last' = Done("login", NoRequest, PyNone, NoPass(""))
    /\ UNCHANGED <<config, now, threads>>

Login(username) == LoginUpTo(username, MaxTokens)

\* The view of /auth/refresh: a new access token for the identity of the context
RefreshView(request, pass) ==
    \E a \in {create_access_token(store, uuid, get_jwt_identity(pass), PyBool(FALSE))} :
        IF ~a.ok
        THEN /\ store' = a.store
             /\ uuid' = a.uuid
             /\ last' = Done("refresh", request, PyNone, [pass EXCEPT !.err = a.err])
             /\ UNCHANGED <<issued, ledger>>
        ELSE /\ store' = a.store
             /\ uuid' = a.uuid
             /\ issued' = issued \cup {a.token}
             /\ ledger' = Put(ledger, JtiOf(a.token), "active")
             /\ last' = Done("refresh", request, PyNone, pass)

\* POST /auth/refresh
Refresh(request) ==
    /\ Cardinality(issued) < MaxTokens
    /\ uuid < 2 * MaxTokens
    /\ \E pass \in {jwt_refresh_token_required(request)} :
       IF pass.called
       THEN RefreshView(request, pass)
       ELSE /\ last' = Done("refresh", request, PyNone, pass)
            /\ UNCHANGED <<store, uuid, issued, ledger>>
    /\ UNCHANGED <<config, now, threads>>

\* The view of /auth/logout: the token of the context is revoked
LogoutView(request, pass, jti) ==
    \E u \in {revoke_token(jti)} :
        /\ store' = u.store
        /\ ledger' = IF u.ok THEN LogRevoke(jti) ELSE ledger
        /\ last' = Done("logout", request, jti, [pass EXCEPT !.err = u.err])

\* POST /auth/logout
Logout(request) ==
    /\ \E pass \in {jwt_required(request)} :
       IF pass.called
       THEN LogoutView(request, pass, get_raw_jwt(pass)["jti"])
       ELSE /\ last' = Done("logout", request, PyNone, pass)
            /\ UNCHANGED <<store, ledger>>
    /\ UNCHANGED <<config, now, uuid, issued, threads>>

\* POST /protected
Protected(request) ==
    /\ \E pass \in {jwt_required(request)} : last' = Done("protected", request, PyNone, pass)
    /\ UNCHANGED <<config, store, now, uuid, issued, ledger, threads>>

\* POST /protected-fresh
ProtectedFresh(request) ==
    /\ \E pass \in {fresh_jwt_required(request)} :
       last' = Done("protected-fresh", request, PyNone, pass)
    /\ UNCHANGED <<config, store, now, uuid, issued, ledger, threads>>

\* Mutant: the route answers "Token revoked" whatever revoke_token raised
Revoke_swallowed(jti) ==
    /\ \E u \in {revoke_token(jti)} :
       /\ store' = u.store
       /\ ledger' = IF u.ok THEN LogRevoke(jti) ELSE ledger
       /\ last' = Done("revoke", NoRequest, jti, NoPass(""))
    /\ UNCHANGED <<config, now, uuid, issued, threads>>

\* POST /auth/revoke/<jti>
Revoke(jti) ==
    /\ \E u \in {revoke_token(jti)} :
       /\ store' = u.store
       /\ ledger' = IF u.ok THEN LogRevoke(jti) ELSE ledger
       /\ last' = Done("revoke", NoRequest, jti, NoPass(u.err))
    /\ UNCHANGED <<config, now, uuid, issued, threads>>

\* Mutant: the unrevoke route calls revoke_token
Unrevoke_revokes(jti) ==
    /\ \E u \in {revoke_token(jti)} :
       /\ store' = u.store
       /\ ledger' = IF u.ok THEN LogUnrevoke(jti) ELSE ledger
       /\ last' = Done("unrevoke", NoRequest, jti, NoPass(u.err))
    /\ UNCHANGED <<config, now, uuid, issued, threads>>

\* POST /auth/unrevoke/<jti>
Unrevoke(jti) ==
    /\ \E u \in {unrevoke_token(jti)} :
       /\ store' = u.store
       /\ ledger' = IF u.ok THEN LogUnrevoke(jti) ELSE ledger
       /\ last' = Done("unrevoke", NoRequest, jti, NoPass(u.err))
    /\ UNCHANGED <<config, now, uuid, issued, threads>>

\* The view of get_single_token: by jti when one is given, else by the
\* encoded token
GetSingleTokenView(jti, encoded_token) ==
    IF jti # PyNone THEN get_stored_token(jti, PyNone)
    ELSE get_stored_token(PyNone, encoded_token)

\* GET /auth/token/jti/<jti>, /auth/token/encoded_token/<encoded_token>,
\* /auth/token/encoded_token/
GetSingleToken(jti, encoded_token) ==
    /\ \E r \in {GetSingleTokenView(jti, encoded_token)} :
       last' = [op |-> "token", request |-> NoRequest, jti |-> jti,
                prior |-> IF jti \in DOMAIN ledger THEN ledger[jti] ELSE "",
                err |-> r.err, jwt |-> EmptyDict, called |-> FALSE, gets |-> r.gets,
                encoded_token |-> encoded_token, ret |-> r.val]
    /\ UNCHANGED <<config, store, now, uuid, issued, ledger, threads>>

\* GET /auth/tokens/<identity>
ListIdentityTokens(identity) ==
    /\ \E r \in {get_stored_tokens(PyStr(identity))} :
       last' = Returned("tokens/identity", PyNone, PyStr(identity), r)
    /\ UNCHANGED <<config, store, now, uuid, issued, ledger, threads>>

\* GET /auth/tokens
ListAllTokens ==
    /\ \E r \in {get_all_stored_tokens} : last' = Returned("tokens", PyNone, PyNone, r)
    /\ UNCHANGED <<config, store, now, uuid, issued, ledger, threads>>

\* app.config['JWT_BLACKLIST_ENABLED'] = ..., ['JWT_BLACKLIST_TOKEN_CHECKS'] = ...
SetBlacklist(enabled, checks) ==
    /\ <<enabled, checks>> # <<config.blacklist_enabled, config.blacklist_checks>>
    /\ config' = [config EXCEPT !.blacklist_enabled = enabled, !.blacklist_checks = checks]
    /\ last' = Done("config", NoRequest, PyNone, NoPass(""))
    /\ UNCHANGED <<store, now, uuid, issued, ledger, threads>>

\* app.config['JWT_BLACKLIST_STORE'] = ...
SetBlacklistStore(blacklist_store) ==
    /\ blacklist_store # config.blacklist_store
    /\ config' = [config EXCEPT !.blacklist_store = blacklist_store]
    /\ last' = Done("config", NoRequest, PyNone, NoPass(""))
    /\ UNCHANGED <<store, now, uuid, issued, ledger, threads>>

\* The store drops a record whose time to live is over
StoreExpires(jti) ==
    /\ jti \in DOMAIN store
    /\ \E until \in store[jti].until : now >= until
    /\ store' = [k \in DOMAIN store \ {jti} |-> store[k]]
    /\ last' = Done("expire", NoRequest, jti, NoPass(""))
    /\ UNCHANGED <<config, now, uuid, issued, ledger, threads>>

\* Time passes, up to `max`
TickUpTo(max) ==
    /\ now < max
    /\ now' = now + 1
    /\ last' = Done("tick", NoRequest, PyNone, NoPass(""))
    /\ UNCHANGED <<config, store, uuid, issued, ledger, threads>>

\* Time passes
Tick ==
    /\ now < MaxNow
    /\ now' = now + 1
    /\ last' = Done("tick", NoRequest, PyNone, NoPass(""))
    /\ UNCHANGED <<config, store, uuid, issued, ledger, threads>>

-----------------------------------------------------------------------------
(* The application under test: tokens are sent back as they were issued     *)

Usernames == {"test1"}

\* The jtis a caller of the revoke routes may name
Jtis == {JtiOf(t) : t \in issued} \cup {PyStr("404_token_not_found")}

\* The requests a client makes: a token it was issued, or none
Requests == {_jwt_post(t) : t \in issued \cup {PyNone}}

Init ==
    /\ config \in {TestConfig(e, c) : e \in BOOLEAN, c \in {"all", "refresh"}}
    /\ store = EmptyDict
    /\ now = 0
    /\ uuid = 0
    /\ issued = {}
    /\ ledger = EmptyDict
    /\ threads = <<>>
    /\ last = Done("init", NoRequest, PyNone, NoPass(""))

\* The requests of the test application
Core ==
    \/ \E username \in Usernames : Login(username)
    \/ \E request \in Requests : Refresh(request)
    \/ \E request \in Requests : Logout(request)
    \/ \E request \in Requests : Protected(request)
    \/ \E request \in Requests : ProtectedFresh(request)
    \/ \E jti \in Jtis : Revoke(jti)
    \/ \E jti \in Jtis : Unrevoke(jti)

\* The application while its blacklist settings are changed
Next ==
    \/ Core
    \/ \E e \in BOOLEAN, c \in {"all", "refresh"} : SetBlacklist(e, c)

Spec == Init /\ [][Next]_vars

\* The application under fixed settings while time passes
NextClock ==
    \/ Core
    \/ Tick

SpecClock == Init /\ [][NextClock]_vars

-----------------------------------------------------------------------------
(* The codec and the extractor on their own: the tokens and requests a      *)
(* caller can hand them, whoever made them.                                 *)

\* del d[k]
Without(d, k) == [x \in DOMAIN d \ {k} |-> d[x]]

\* d[k] = v unless v is None
WithItem(d, k, v) == IF v = PyNone THEN d ELSE Put(d, k, v)

\* The claims of an access token that expires at second exp_s
AccessClaims(exp_s) ==
    [exp |-> PyDatetime(exp_s * TicksPerSecond),
     iat |-> PyDatetime(0),
     nbf |-> PyDatetime(0),
     jti |-> PyStr("j1"),
     identity |-> PyStr("test1"),
     fresh |-> PyBool(TRUE),
     type |-> PyStr("access"),
     user_claims |-> PyDict]

ClaimShapes ==
    {"access", "refresh", "no_jti", "jti_int", "jti_empty", "no_identity", "no_type", "bad_type",
     "no_fresh", "fresh_str", "no_user_claims", "user_claims_str"}

\* Token claims with one of the custom claims missing or mistyped
ShapedClaims(shape, exp_s) ==
    CASE shape = "access" -> AccessClaims(exp_s)
      [] shape = "refresh" ->
            Without(Without(Put(AccessClaims(exp_s), "type", PyStr("refresh")),
                            "fresh"), "user_claims")
      [] shape = "no_jti" -> Without(AccessClaims(exp_s), "jti")
      [] shape = "jti_int" -> Put(AccessClaims(exp_s), "jti", PyInt(7))
      [] shape = "jti_empty" -> Put(AccessClaims(exp_s), "jti", PyStr(""))
      [] shape = "no_identity" -> Without(AccessClaims(exp_s), "identity")
      [] shape = "no_type" -> Without(AccessClaims(exp_s), "type")
      [] shape = "bad_type" -> Put(AccessClaims(exp_s), "type", PyStr("other"))
      [] shape = "no_fresh" -> Without(AccessClaims(exp_s), "fresh")
      [] shape = "fresh_str" -> Put(AccessClaims(exp_s), "fresh", PyStr("yes"))
      [] shape = "no_user_claims" -> Without(AccessClaims(exp_s), "user_claims")
      [] shape = "user_claims_str" -> Put(AccessClaims(exp_s), "user_claims", PyStr("x"))

Secrets == {"super=secret", "not=the=secret"}

\* The tokens handed to _decode_jwt
DecodeTokens ==
    {jwt_encode(ShapedClaims(shape, exp_s), secret) :
        shape \in ClaimShapes, exp_s \in 0..(MaxNow \div TicksPerSecond), secret \in Secrets}

\* What a decoding leaves in `last`
Outcome(r) ==
    [err |-> IF r.ok THEN "" ELSE r.err,
     jwt |-> IF r.ok THEN r.val ELSE EmptyDict,
     called |-> FALSE,
     gets |-> {}]

\* _decode_jwt(token, config.secret_key, config.algorithm)
DecodeToken(token) ==
    /\ last' = Done("decode", NoRequest, PyNone, Outcome(_decode_jwt(token, config.secret_key)))
    /\ UNCHANGED <<config, store, now, uuid, issued, ledger, threads>>

InitDecode ==
    /\ config = TestConfig(FALSE, "all")
    /\ store = EmptyDict
    /\ now \in 0..MaxNow
    /\ uuid = 0
    /\ issued \in {{t} : t \in DecodeTokens}
    /\ ledger = EmptyDict
    /\ threads = <<>>
    /\ last = Done("init", NoRequest, PyNone, NoPass(""))

NextDecode == \E token \in issued : DecodeToken(token)

SpecDecode == InitDecode /\ [][NextDecode]_vars

\* The csrf claim of a cookie token: a string, missing, or not a string
CsrfShapes == {"csrf", "no_csrf", "csrf_int"}

CookieClaims(shape, exp_s) ==
    CASE shape = "csrf" -> Put(AccessClaims(exp_s), "csrf", PyStr("c1"))
      [] shape = "no_csrf" -> AccessClaims(exp_s)
      [] shape = "csrf_int" -> Put(AccessClaims(exp_s), "csrf", PyInt(7))

\* The cookie values of a request: none, or a token that is valid or expired
CookieTokens ==
    {PyNone} \cup {jwt_encode(CookieClaims(shape, exp_s), config.secret_key) :
                      shape \in CsrfShapes, exp_s \in {-1, 1}}

\* The Authorization header values of a request
AuthHeaders ==
    {PyNone, Wire(<<Word("Bearer"), Space,
                    [sig |-> config.secret_key, payload |-> JsonPayload(AccessClaims(1))]>>)}

\* The X-CSRF-TOKEN header values of a request
CsrfHeaders == {PyNone, PyStr("c1"), PyStr("c2")}

ExtractRequests ==
    {[method |-> method,
      headers |-> WithItem(WithItem(EmptyDict, "Authorization", auth), "X-CSRF-TOKEN", csrf),
      cookies |-> WithItem(EmptyDict, cookie_name, cookie)] :
        method \in {"GET", "POST"}, auth \in AuthHeaders, csrf \in CsrfHeaders,
        cookie_name \in {"access_token_cookie", "refresh_token_cookie"},
        cookie \in CookieTokens}

ExtractOp(type) == IF type = "access" THEN "extract_access" ELSE "extract_refresh"

\* _decode_jwt_from_request(type)
ExtractToken(request, type) ==
    /\ last' = Done(ExtractOp(type), request, PyNone,
                    Outcome(_decode_jwt_from_request(request, type)))
    /\ UNCHANGED <<config, store, now, uuid, issued, ledger, threads>>

InitExtract ==
    /\ config \in {[TestConfig(FALSE, "all") EXCEPT !.token_location = loc,
                                                    !.cookie_csrf_protect = protect] :
                      loc \in {{"headers"}, {"cookies"}, {"headers", "cookies"}},
                      protect \in BOOLEAN}
    /\ store = EmptyDict
    /\ now = 0
    /\ uuid = 0
    /\ issued = {}
    /\ ledger = EmptyDict
    /\ threads = <<>>
    /\ last = Done("init", NoRequest, PyNone, NoPass(""))

NextExtract ==
    \E request \in ExtractRequests, type \in {"access", "refresh"} : ExtractToken(request, type)

SpecExtract == InitExtract /\ [][NextExtract]_vars

-----------------------------------------------------------------------------
(* The extractor on one received request: the header values and cookies a   *)
(* client can send, under each token location and header type.              *)

\* The claims of the token a client sends in the Authorization header
HeaderClaims(exp_s) == Put(AccessClaims(exp_s), "jti", PyStr("h1"))

\* The tokens an Authorization header carries: valid, expired, signed with
\* another secret
HeaderTokens ==
    {jwt_encode(HeaderClaims(1), config.secret_key),
     jwt_encode(HeaderClaims(-1), config.secret_key),
     jwt_encode(HeaderClaims(1), "not=the=secret")}

\* The Authorization header values: none, empty, whitespace, and a token with
\* or without a scheme, with padding, or with a trailing part
HeaderValues ==
    {PyNone, Wire(<<>>), Wire(<<Space>>), Wire(<<Word("Bearer")>>)}
    \cup {Wire(<<Word("Bearer"), Space>> \o tok.s) : tok \in HeaderTokens}
    \cup {Wire(tok.s) : tok \in HeaderTokens}
    \cup {Wire(<<Word("Basic"), Space>> \o jwt_encode(HeaderClaims(1), config.secret_key).s),
          Wire(<<Word("Bearer"), Space>> \o jwt_encode(HeaderClaims(1), config.secret_key).s
               \o <<Space, Word("x")>>),
          Wire(<<Space, Word("Bearer"), Space>> \o jwt_encode(HeaderClaims(1), config.secret_key).s
               \o <<Space>>)}

\* The cookies of a received request: none, a valid token, an expired one
ReceivedCookies ==
    {PyNone,
     jwt_encode(CookieClaims("csrf", 1), config.secret_key),
     jwt_encode(CookieClaims("csrf", -1), config.secret_key)}

ReceivedRequests ==
    {[method |-> method,
      headers |-> WithItem(WithItem(EmptyDict, "Authorization", auth), "X-CSRF-TOKEN", csrf),
      cookies |-> WithItem(EmptyDict, cookie_name, cookie)] :
        method \in {"GET", "POST"}, auth \in HeaderValues, csrf \in {PyNone, PyStr("c1")},
        cookie_name \in {"access_token_cookie", "refresh_token_cookie"},
        cookie \in ReceivedCookies}

InitLocate ==
    /\ config \in {[TestConfig(FALSE, "all") EXCEPT !.token_location = loc,
                                                    !.header_type = header_type] :
                      loc \in {{"headers"}, {"cookies"}, {"headers", "cookies"}},
                      header_type \in {PyStr("Bearer"), PyStr("")}}
    /\ store = EmptyDict
    /\ now = 0
    /\ uuid = 0
    /\ issued = {}
    /\ ledger = EmptyDict
    /\ threads = <<>>
    /\ last \in {Done("request", request, PyNone, NoPass("")) : request \in ReceivedRequests}

\* The received request goes through _decode_jwt_from_request
NextLocate == \E type \in {"access", "refresh"} : ExtractToken(last.request, type)

SpecLocate == InitLocate /\ [][NextLocate]_vars

-----------------------------------------------------------------------------
(* The issuer under each cookie setting, every token registered: logins and *)
(* refreshes while time passes.                                             *)

InitIssue ==
    /\ config \in {[TestConfig(TRUE, "all") EXCEPT !.token_location = loc,
                                                   !.cookie_csrf_protect = protect] :
                      loc \in {{"headers"}, {"headers", "cookies"}},
                      protect \in BOOLEAN}
    /\ store = EmptyDict
    /\ now = 0
    /\ uuid = 0
    /\ issued = {}
    /\ ledger = EmptyDict
    /\ threads = <<>>
    /\ last = Done("init", NoRequest, PyNone, NoPass(""))

NextIssue ==
    \/ \E username \in Usernames : Login(username)
    \/ \E request \in Requests : Refresh(request)
    \/ ListAllTokens
    \/ Tick

SpecIssue == InitIssue /\ [][NextIssue]_vars

-----------------------------------------------------------------------------
(* The listings of the ledger: several users log in, tokens are revoked and *)
(* unrevoked by jti, and the stored tokens are listed.                      *)

MaxListed == 6

ListUsernames == {"test1", "test2"}

\* The identities a listing is asked for: test3 never logs in
ListIdentities == ListUsernames \cup {"test3"}

\* The tokens issued for an identity
IssuedFor(identity) == {t \in issued : t.s[1].payload["identity"] = identity}

\* The jtis of the tokens issued for an identity that the issuer registered
RegisteredFor(identity) ==
    {JtiOf(t) : t \in {i \in IssuedFor(identity) : InScope(i.s[1].payload["type"])}}

InitList ==
    /\ config \in {TestConfig(TRUE, checks) : checks \in {"refresh", "all"}}
    /\ store = EmptyDict
    /\ now = 0
    /\ uuid = 0
    /\ issued = {}
    /\ ledger = EmptyDict
    /\ threads = <<>>
    /\ last = Done("init", NoRequest, PyNone, NoPass(""))

NextList ==
    \/ \E username \in ListUsernames : LoginUpTo(username, MaxListed)
    \/ \E jti \in Jtis : Revoke(jti)
    \/ \E jti \in Jtis : Unrevoke(jti)
    \/ \E identity \in ListIdentities : ListIdentityTokens(identity)
    \/ ListAllTokens
    \/ \E jti \in Jtis : GetSingleToken(jti, PyNone)
    \/ \E encoded_token \in issued \cup {PyNone} : GetSingleToken(PyNone, encoded_token)

SpecList == InitList /\ [][NextList]_vars

-----------------------------------------------------------------------------
(* The application while its blacklist settings are changed to ones the     *)
(* ledger cannot work with, and while its store cannot be reached.          *)

\* JWT_BLACKLIST_STORE: a store, no store, a store whose calls fail
BlacklistStores == {"DictStore", "None", "Unreachable"}

\* JWT_BLACKLIST_TOKEN_CHECKS: the two scopes and a value that is neither
BlacklistChecks == {"all", "refresh", "bogus"}

InitFault ==
    /\ config \in {TestConfig(e, c) : e \in BOOLEAN, c \in BlacklistChecks}
    /\ store = EmptyDict
    /\ now = 0
    /\ uuid = 0
    /\ issued = {}
    /\ ledger = EmptyDict
    /\ threads = <<>>
    /\ last = Done("init", NoRequest, PyNone, NoPass(""))

NextFault ==
    \/ Core
    \/ \E jti \in Jtis : GetSingleToken(jti, PyNone)
    \/ \E identity \in Usernames : ListIdentityTokens(identity)
    \/ ListAllTokens
    \/ \E blacklist_store \in BlacklistStores : SetBlacklistStore(blacklist_store)

SpecFault == InitFault /\ [][NextFault]_vars

-----------------------------------------------------------------------------
(* The issuer on its own: the two encoders called with the arguments a      *)
(* caller can hand them, at any time of the clock, under each setting of    *)
(* the blacklist and of the cookies.                                        *)

MaxEncoded == 2

\* identity, token_expire_delta (seconds), fresh and user_claims arguments
EncodeIdentities == {PyStr("test1")}
EncodeDeltas == {0, AccessExpires}
EncodeFresh == {PyBool(TRUE), PyBool(FALSE), PyStr("yes")}
EncodeUserClaims == {PyDict, PyDictOf(<<"a">>), PyDictOf(<<"object">>), PyStr("claims")}

\* What a call of an encoder leaves in `last`: its arguments, what it raised
\* and the encoded token it returned
Encoded(op, args, r) ==
    [op |-> op, request |-> NoRequest, jti |-> PyNone, prior |-> "",
     err |-> r.err, jwt |-> EmptyDict, called |-> FALSE, gets |-> {},
     args |-> args, token |-> r.token]

\* What the call leaves behind
Encode(op, args, r) ==
    /\ store' = r.store
    /\ uuid' = r.uuid
    /\ issued' = IF r.ok THEN issued \cup {r.token} ELSE issued
    /\ ledger' = IF r.ok THEN Put(ledger, JtiOf(r.token), "active") ELSE ledger
    /\ last' = Encoded(op, args, r)
    /\ UNCHANGED <<config, now, threads>>

\* _encode_access_token(identity, secret, algorithm, token_expire_delta, fresh, user_claims)
EncodeAccessToken(identity, token_expire_delta, fresh, user_claims) ==
    /\ Cardinality(issued) < MaxEncoded
    /\ Encode("encode_access",
              [identity |-> identity, token_expire_delta |-> token_expire_delta,
               fresh |-> fresh, user_claims |-> user_claims],
              _encode_access_token(store, uuid, identity, config.secret_key,
                                   token_expire_delta, fresh, user_claims))

\* _encode_refresh_token(identity, secret, algorithm, token_expire_delta)
EncodeRefreshToken(identity, token_expire_delta) ==
    /\ Cardinality(issued) < MaxEncoded
    /\ Encode("encode_refresh",
              [identity |-> identity, token_expire_delta |-> token_expire_delta],
              _encode_refresh_token(store, uuid, identity, config.secret_key,
                                    token_expire_delta))

InitEncode ==
    /\ config \in {[TestConfig(settings[1], settings[2])
                        EXCEPT !.token_location = cookies[1],
                               !.cookie_csrf_protect = cookies[2]] :
                      settings \in {<<FALSE, "refresh">>, <<TRUE, "refresh">>, <<TRUE, "all">>},
                      cookies \in {<<{"headers"}, TRUE>>, <<{"headers", "cookies"}, TRUE>>,
                                   <<{"headers", "cookies"}, FALSE>>}}
    /\ store = EmptyDict
    /\ now \in 0..TicksPerSecond
    /\ uuid = 0
    /\ issued = {}
    /\ ledger = EmptyDict
    /\ threads = <<>>
    /\ last = Done("init", NoRequest, PyNone, NoPass(""))

NextEncode ==
    \/ \E identity \in EncodeIdentities, token_expire_delta \in EncodeDeltas,
          fresh \in EncodeFresh, user_claims \in EncodeUserClaims :
          EncodeAccessToken(identity, token_expire_delta, fresh, user_claims)
    \/ \E identity \in EncodeIdentities, token_expire_delta \in EncodeDeltas :
          EncodeRefreshToken(identity, token_expire_delta)
    \/ \E username \in Usernames : LoginUpTo(username, MaxEncoded)

SpecEncode == InitEncode /\ [][NextEncode]_vars

-----------------------------------------------------------------------------
(* The application over a store that keeps a time to live: records are      *)
(* registered, revoked and unrevoked while time passes, and the store drops *)
(* the records whose time is over.                                          *)

\* The clock runs past the instant the store may drop an access token's record
MaxTtlNow == (AccessExpires + GraceWindow) * TicksPerSecond + 1

InitTtl ==
    /\ config \in {[TestConfig(TRUE, checks) EXCEPT !.blacklist_store = "RedisStore"] :
                      checks \in {"all", "refresh"}}
    /\ store = EmptyDict
    /\ now = 0
    /\ uuid = 0
    /\ issued = {}
    /\ ledger = EmptyDict
    /\ threads = <<>>
    /\ last = Done("init", NoRequest, PyNone, NoPass(""))

\* one login, its two tokens followed through their lifetimes
NextTtl ==
    \/ \E username \in Usernames : LoginUpTo(username, 2)
    \/ \E request \in Requests : Protected(request)
    \/ \E jti \in Jtis : Revoke(jti)
    \/ \E jti \in Jtis : Unrevoke(jti)
    \/ \E jti \in Jtis : StoreExpires(jti)
    \/ TickUpTo(MaxTtlNow)

SpecTtl == InitTtl /\ [][NextTtl]_vars

-----------------------------------------------------------------------------
(* The application served by several worker threads.  A request runs up to  *)
(* its next call of the store (get or put), which the store serializes;     *)
(* between two calls of one request the calls of the others may fall.       *)
(* revoke_token and unrevoke_token read the record and put it back with the *)
(* new flag, without a lock.                                                *)

\* The worker threads
MaxThreads == 2

Threads == 1..MaxThreads

\* A thread that serves no request
Idle ==
    [op |-> "", pc |-> "idle", request |-> NoRequest, jti |-> PyNone, revoked |-> FALSE,
     read |-> {}, err |-> "", jwt |-> EmptyDict, called |-> FALSE]

\* A thread whose request has been answered
Answered(t, e) == [t EXCEPT !.pc = "done", !.err = e, !.read = {}]

\* The thread is free to take a request
Free(th) == threads[th].pc \in {"idle", "done"}

\* Mutant: the record is put back as it was read, flag included
_update_token_record_as_read(read, revoked) == read

\* _update_token: the record put back, the one read with the new flag
_update_token_record(read, revoked) ==
    [token |-> read.token, revoked |-> revoked,
     until |-> PutUntil(_get_token_ttl(read.token) + GraceWindow * TicksPerSecond)]

\* jwt_required up to its call of the store: the token is decoded and its
\* type verified
Receive(th, op, request) ==
    /\ Free(th)
    /\ \E d \in {_decode_jwt_from_request(request, "access")} :
       threads' = [threads EXCEPT ![th] =
           IF ~d.ok THEN Answered([Idle EXCEPT !.op = op, !.request = request], d.err)
           ELSE IF d.val["type"] # PyStr("access")
           THEN Answered([Idle EXCEPT !.op = op, !.request = request], "WrongTokenError")
           ELSE [Idle EXCEPT !.op = op, !.request = request, !.pc = "check",
                             !.jwt = d.val]]
    /\ UNCHANGED <<config, store, now, uuid, issued, ledger, last>>

\* jwt_required: the blacklist is looked at, one get of the store
CheckRevocation(th) ==
    /\ threads[th].pc = "check"
    /\ \E c \in {RevocationCheck(threads[th].jwt)} :
       threads' = [threads EXCEPT ![th] =
           IF ~c.ok THEN Answered([@ EXCEPT !.jwt = EmptyDict], c.err)
           ELSE [@ EXCEPT !.pc = "view"]]
    /\ UNCHANGED <<config, store, now, uuid, issued, ledger, last>>

\* The view is called with the jwt in the context: /protected answers,
\* /auth/logout calls revoke_token, which reads the record of the jti
RunView(th) ==
    /\ threads[th].pc = "view"
    /\ IF threads[th].op = "protected"
       THEN threads' = [threads EXCEPT ![th] = Answered([@ EXCEPT !.called = TRUE], "")]
       ELSE \E jti \in {threads[th].jwt["jti"]} : \E u \in {revoke_token(jti)} :
            threads' = [threads EXCEPT ![th] =
                IF ~u.ok THEN Answered([@ EXCEPT !.called = TRUE, !.jti = jti], u.err)
                ELSE [@ EXCEPT !.called = TRUE, !.jti = jti, !.revoked = TRUE,
                               !.pc = "put", !.read = {store[jti]}]]
    /\ UNCHANGED <<config, store, now, uuid, issued, ledger, last>>

\* The routes revoke and unrevoke up to the get of _update_token
UpdateGet(th, op, jti) ==
    /\ Free(th)
    /\ \E u \in {IF op = "revoke" THEN revoke_token(jti) ELSE unrevoke_token(jti)} :
       threads' = [threads EXCEPT ![th] =
           IF ~u.ok THEN Answered([Idle EXCEPT !.op = op, !.jti = jti], u.err)
           ELSE [Idle EXCEPT !.op = op, !.jti = jti, !.revoked = (op = "revoke"),
                             !.pc = "put", !.read = {store[jti]}]]
    /\ UNCHANGED <<config, store, now, uuid, issued, ledger, last>>

\* The put of _update_token, after which the route or the view answers
UpdatePut(th) ==
    /\ threads[th].pc = "put"
    /\ \E read \in threads[th].read :
       store' = Put(store, threads[th].jti,
                    _update_token_record(read, threads[th].revoked))
    /\ ledger' = IF threads[th].revoked THEN LogRevoke(threads[th].jti)
                 ELSE LogUnrevoke(threads[th].jti)
    /\ threads' = [threads EXCEPT ![th] = Answered(@, "")]
    /\ UNCHANGED <<config, now, uuid, issued, last>>

\* A login while no request is in progress, then requests in parallel
LoginAlone(username) ==
    /\ \A th \in Threads : threads[th].pc = "idle"
    /\ LoginUpTo(username, 2)

InitRace ==
    /\ config = TestConfig(TRUE, "all")
    /\ store = EmptyDict
    /\ now = 0
    /\ uuid = 0
    /\ issued = {}
    /\ ledger = EmptyDict
    /\ last = Done("init", NoRequest, PyNone, NoPass(""))
    /\ threads = [th \in Threads |-> Idle]

NextRace ==
    \/ \E username \in Usernames : LoginAlone(username)
    \/ \E th \in Threads, op \in {"protected", "logout"}, request \in Requests :
          Receive(th, op, request)
    \/ \E th \in Threads : CheckRevocation(th)
    \/ \E th \in Threads : RunView(th)
    \/ \E th \in Threads, op \in {"revoke", "unrevoke"}, jti \in Jtis : UpdateGet(th, op, jti)
    \/ \E th \in Threads : UpdatePut(th)

SpecRace == InitRace /\ [][NextRace]_vars

-----------------------------------------------------------------------------
(* Properties *)

\* The payload inside an encoded token
PayloadOf(encoded_token) == encoded_token.s[1].payload

\* The routes behind the decorators of each token type
AccessOps == {"protected", "protected-fresh", "logout"}
RefreshOps == {"refresh"}
OpsOf(type) == IF type = "access" THEN AccessOps ELSE RefreshOps

\* An issued access token that has not expired is presented in this step
PresentsAccess(t) ==
    /\ last'.op \in AccessOps
    /\ last'.request = _jwt_post(t)
    /\ PayloadOf(t)["type"] = PyStr("access")
    /\ ~Expired(PayloadOf(t)["exp"])

(* C1: with the blacklist enabled and the checks set to 'all', an issued,  *)
(* registered, unexpired access token authenticates on /protected as long  *)
(* as the last ledger operation on its jti is not a revoke (so also after  *)
(* an unrevoke), and once revoke_token(jti) has completed every pass with  *)
(* it on an access route is rejected with RevokedTokenError, until an      *)
(* unrevoke.                                                               *)
C1_RevokeThenUnrevoke ==
    [][\A t \in issued :
         (/\ config.blacklist_enabled
          /\ config.blacklist_checks = "all"
          /\ PresentsAccess(t)
          /\ JtiOf(t) \in DOMAIN store)
         => /\ ledger[JtiOf(t)] = "revoked"
               => last'.err = "RevokedTokenError" /\ ~last'.called
            /\ (ledger[JtiOf(t)] = "active" /\ last'.op \in {"protected", "logout"})
               => last'.err = "" /\ last'.called /\ last'.jwt = PayloadOf(t)]_vars

\* C1 witness: a replayed access token is rejected after its revoke
C1_Witness ==
    /\ config.blacklist_enabled
    /\ config.blacklist_checks = "all"
    /\ last.op = "protected"
    /\ last.err = "RevokedTokenError"
    /\ \E t \in issued :
          /\ last.request = _jwt_post(t)
          /\ ~Expired(PayloadOf(t)["exp"])
          /\ ledger[JtiOf(t)] = "revoked"

AccessEntries(st) == {k \in DOMAIN st : st[k].token["type"] = PyStr("access")}

(* C3: with the blacklist enabled and the checks set to 'refresh', the     *)
(* store holds no record of an access token however many were issued, and  *)
(* an issued, unexpired access token authenticates on /protected without   *)
(* any key being read from the store.                                      *)
C3_RefreshScopeSkipsAccess ==
    (config.blacklist_enabled /\ config.blacklist_checks = "refresh")
    => /\ AccessEntries(store) = {}
       /\ \A t \in issued :
            (/\ last.op = "protected"
             /\ last.request = _jwt_post(t)
             /\ PayloadOf(t)["type"] = PyStr("access")
             /\ ~Expired(PayloadOf(t)["exp"]))
            => /\ last.err = ""
               /\ last.called
               /\ last.jwt = PayloadOf(t)
               /\ last.gets = {}

\* C3 witness: after a login only the refresh token is stored, and the access
\* token authenticates
C3_Witness ==
    /\ config.blacklist_enabled
    /\ config.blacklist_checks = "refresh"
    /\ last.op = "protected"
    /\ last.called
    /\ DOMAIN store # {}
    /\ \E t \in issued :
          /\ last.request = _jwt_post(t)
          /\ PayloadOf(t)["type"] = PyStr("access")

\* The operation of this step is a revoke or an unrevoke by jti
UpdatesLedger == last'.op \in {"revoke", "unrevoke"}

(* C4: for a registered jti, an unrevoke_token(jti) that follows a         *)
(* revoke_token(jti) leaves the record active (revoked flag false), and    *)
(* neither operation changes the set of records: the keys stay the same,   *)
(* the stored token stays the same, and no other record is touched.        *)
C4_UnrevokeAfterRevoke ==
    [][(UpdatesLedger /\ last'.jti \in DOMAIN store /\ last'.err = "")
       => /\ DOMAIN store' = DOMAIN store
          /\ \A k \in DOMAIN store :
                /\ store'[k].token = store[k].token
                /\ k # last'.jti => store'[k] = store[k]
          /\ store'[last'.jti].revoked = (last'.op = "revoke")
          /\ (last'.op = "unrevoke" /\ ledger[last'.jti] = "revoked")
             => ~store'[last'.jti].revoked]_vars

\* C4 witness: an unrevoke has completed on a jti that was revoked before
C4_Witness ==
    /\ last.op = "unrevoke"
    /\ last.err = ""
    /\ last.prior = "revoked"
    /\ last.jti \in DOMAIN store
    /\ ~store[last.jti].revoked
    /\ Cardinality(DOMAIN store) >= 2

(* C5: revoke_token(jti) and unrevoke_token(jti) on a jti that has no      *)
(* record fail with the token-not-found error (KeyError) and leave the     *)
(* store as it was: no record is created for that jti.                     *)
C5_UnknownJtiNotFound ==
    [][(UpdatesLedger /\ BlacklistConfigured /\ last'.jti \notin DOMAIN store)
       => /\ last'.err = "KeyError"
          /\ store' = store
          /\ ledger' = ledger]_vars

\* C5 witness: a revoke of an unknown jti has failed beside existing records
C5_Witness ==
    /\ last.op \in {"revoke", "unrevoke"}
    /\ last.err = "KeyError"
    /\ last.jti \notin DOMAIN store
    /\ DOMAIN store # {}

(* C6: a successfully decoded token whose type is not the one the endpoint *)
(* requires (a refresh token on jwt_required or fresh_jwt_required, an     *)
(* access token on jwt_refresh_token_required) is rejected with the        *)
(* wrong-token-type error; the view is not called.                         *)
C6_WrongTokenType ==
    \A type \in {"access", "refresh"} :
        \A d \in {_decode_jwt_from_request(last.request, type)} :
            (/\ last.op \in OpsOf(type)
             /\ d.ok
             /\ d.val["type"] # PyStr(type))
            => /\ last.err = "WrongTokenError"
               /\ ~last.called
               /\ last.jwt = EmptyDict

\* C6 witness: an access token was refused on the refresh endpoint
C6_Witness ==
    /\ last.op = "refresh"
    /\ last.err = "WrongTokenError"
    /\ \E t \in issued :
          /\ last.request = _jwt_post(t)
          /\ PayloadOf(t)["type"] = PyStr("access")

\* An issued access token that is valid and not revoked: unexpired, and
\* either not subject to the revocation check or registered and active
ValidUnrevokedAccess(t) ==
    /\ PayloadOf(t)["type"] = PyStr("access")
    /\ ~Expired(PayloadOf(t)["exp"])
    /\ \/ ~config.blacklist_enabled
       \/ ~InScope(PyStr("access"))
       \/ JtiOf(t) \in DOMAIN store /\ ledger[JtiOf(t)] = "active"

(* C7: on the fresh-required endpoint a valid, unrevoked access token with *)
(* fresh=false is rejected with FreshTokenRequired and one with fresh=true *)
(* is authenticated; on the endpoint that does not require freshness the   *)
(* token is authenticated whatever its fresh claim.                        *)
C7_FreshnessGate ==
    \A t \in issued :
        (last.request = _jwt_post(t) /\ ValidUnrevokedAccess(t))
        => /\ (last.op = "protected-fresh" /\ PayloadOf(t)["fresh"] = PyBool(FALSE))
              => last.err = "FreshTokenRequired" /\ ~last.called
           /\ (last.op = "protected-fresh" /\ PayloadOf(t)["fresh"] = PyBool(TRUE))
              => last.err = "" /\ last.called /\ last.jwt = PayloadOf(t)
           /\ last.op = "protected"
              => last.err = "" /\ last.called /\ last.jwt = PayloadOf(t)

\* C7 witness: a token minted by the refresh flow was refused for freshness
C7_Witness ==
    /\ last.op = "protected-fresh"
    /\ last.err = "FreshTokenRequired"
    /\ \E t \in issued :
          /\ last.request = _jwt_post(t)
          /\ ValidUnrevokedAccess(t)
          /\ PayloadOf(t)["fresh"] = PyBool(FALSE)

\* A correctly signed token with whole-second nbf and exp claims
WellSigned(t) ==
    /\ t.s[1].sig = config.secret_key
    /\ PayloadOf(t)["nbf"].n <= timegm(utcnow).n

(* C8: every correctly signed token decoded at a time now >= exp (exp      *)
(* taken as an instant, now with its sub-second part) fails with the       *)
(* expired-signature error, whatever the state of its custom claims.       *)
C8_ExpiredAtOrAfterExp ==
    \A t \in issued :
        (/\ last.op = "decode"
         /\ WellSigned(t)
         /\ now >= PayloadOf(t)["exp"].n * TicksPerSecond)
        => last.err = "ExpiredSignatureError"

\* C8 witness: a token is decoded successfully within the second its exp names
C8_Witness ==
    /\ last.op = "decode"
    /\ last.err = ""
    /\ \E t \in issued :
          /\ WellSigned(t)
          /\ now >= PayloadOf(t)["exp"].n * TicksPerSecond
          /\ last.jwt = PayloadOf(t)

\* The cookie of the request that `type` names, None when there is none
CookieOf(request, type) ==
    Get(request.cookies, IF type = "access" THEN config.access_cookie_name
                         ELSE config.refresh_cookie_name)

\* The token of the request is taken from its cookie
CookieSourced(request, type) ==
    /\ "cookies" \in config.token_location
    /\ "headers" \in config.token_location => "Authorization" \notin DOMAIN request.headers
    /\ CookieOf(request, type) # PyNone

\* The request is subject to the CSRF double submit check
CsrfChecked(request) ==
    /\ config.cookie_csrf_protect
    /\ request.method \in config.csrf_request_methods

\* The csrf claim of the cookie token and the CSRF header of the request
CsrfClaim(request, type) == Get(PayloadOf(CookieOf(request, type)), "csrf")
CsrfHeader(request) == Get(request.headers, "X-CSRF-TOKEN")

\* A cookie-sourced extraction under the CSRF check has just been made
CsrfCase(type) ==
    /\ last.op = ExtractOp(type)
    /\ CookieSourced(last.request, type)
    /\ CsrfChecked(last.request)

(* C9: a cookie-sourced token under the CSRF check whose request has no    *)
(* CSRF header, or one that differs from the csrf claim, is never          *)
(* extracted; when the token itself is valid (signature, expiry, required  *)
(* claims and a string csrf claim) the failure is CSRFError.               *)
C9_CsrfHeaderMissingOrMismatched ==
    \A type \in {"access", "refresh"} :
        (/\ CsrfCase(type)
         /\ CsrfHeader(last.request) # CsrfClaim(last.request, type))
        => /\ last.err # ""
           /\ (/\ _decode_jwt(CookieOf(last.request, type), config.secret_key).ok
               /\ IsStr(CsrfClaim(last.request, type)))
              => last.err = "CSRFError"

\* C9 witness: a valid cookie token is refused for a mismatched header
C9_Witness ==
    /\ CsrfCase("access")
    /\ CsrfHeader(last.request) = PyStr("c2")
    /\ CsrfClaim(last.request, "access") = PyStr("c1")
    /\ last.err = "CSRFError"

\* The cookie token of the request decodes: signature, expiry, required claims
CookieDecodes(type) == _decode_jwt(CookieOf(last.request, type), config.secret_key).ok

(* C10 as stated: on the cookie path under the CSRF check, extraction of   *)
(* an otherwise valid token fails with CSRFError whenever the CSRF header  *)
(* or the csrf claim of the token is absent.                               *)
C10_EitherAbsentIsCsrfError ==
    \A type \in {"access", "refresh"} :
        (/\ CsrfCase(type)
         /\ CookieDecodes(type)
         /\ \/ CsrfHeader(last.request) = PyNone
            \/ CsrfClaim(last.request, type) = PyNone)
        => last.err = "CSRFError"

(* C10 amended: on the cookie path under the CSRF check, an otherwise      *)
(* valid token whose csrf claim is absent fails with JWTDecodeError,       *)
(* whether the header is there or not; CSRFError is the failure when the   *)
(* claim is a string and the header is absent.                             *)
C10_AbsentClaimIsDecodeError ==
    \A type \in {"access", "refresh"} :
        (CsrfCase(type) /\ CookieDecodes(type))
        => /\ CsrfClaim(last.request, type) = PyNone
              => last.err = "JWTDecodeError"
           /\ (/\ IsStr(CsrfClaim(last.request, type))
               /\ CsrfHeader(last.request) = PyNone)
              => last.err = "CSRFError"

\* C10 witness: a cookie token without the csrf claim, sent with a CSRF header
C10_Witness ==
    /\ CsrfCase("access")
    /\ CookieDecodes("access")
    /\ CsrfClaim(last.request, "access") = PyNone
    /\ CsrfHeader(last.request) # PyNone
    /\ last.err = "JWTDecodeError"

\* Both token locations are configured
BothLocations == config.token_location = {"headers", "cookies"}

\* What each location alone makes of the request
HeaderOutcome(type) == Outcome(_decode_jwt_from_headers(last.request, type))
CookieOutcome(type) == Outcome(_decode_jwt_from_cookies(last.request, type))

(* C11: with both locations configured, the token of the header is         *)
(* returned when the header path succeeds, whatever the cookie holds; the  *)
(* result of the cookie path is returned when the header path reports the  *)
(* token missing; and when both report it missing the extraction fails     *)
(* with NoAuthorizationError.                                              *)
C11_HeaderThenCookie ==
    \A type \in {"access", "refresh"} :
        \A h \in {HeaderOutcome(type)} : \A c \in {CookieOutcome(type)} :
            (last.op = ExtractOp(type) /\ BothLocations)
            => /\ h.err = "" => last.err = "" /\ last.jwt = h.jwt
               /\ (h.err = "NoAuthorizationError" /\ c.err # "NoAuthorizationError")
                  => last.err = c.err /\ last.jwt = c.jwt
               /\ (h.err = "NoAuthorizationError" /\ c.err = "NoAuthorizationError")
                  => last.err = "NoAuthorizationError" /\ last.jwt = EmptyDict

\* C11 witness: a request with a valid token in the header and another valid
\* token in the cookie yields the token of the header
C11_Witness ==
    /\ last.op = "extract_access"
    /\ BothLocations
    /\ CookieOutcome("access").err = ""
    /\ CookieOutcome("access").jwt["jti"] = PyStr("j1")
    /\ last.err = ""
    /\ last.jwt["jti"] = PyStr("h1")

\* A failure other than the token being missing
OtherFailure(o) == o.err \notin {"", "NoAuthorizationError"}

(* C12: with both locations configured, a failure of the header path other *)
(* than a missing token is the failure of the extraction, also when the    *)
(* cookie carries a valid token; and when the header is missing, a failure *)
(* of the cookie path other than a missing token is the failure of the     *)
(* extraction, never NoAuthorizationError.                                 *)
C12_FailuresPropagate ==
    \A type \in {"access", "refresh"} :
        \A h \in {HeaderOutcome(type)} : \A c \in {CookieOutcome(type)} :
            (last.op = ExtractOp(type) /\ BothLocations)
            => /\ OtherFailure(h) => last.err = h.err /\ last.jwt = EmptyDict
               /\ (h.err = "NoAuthorizationError" /\ OtherFailure(c))
                  => last.err = c.err /\ last.jwt = EmptyDict

\* C12 witness: an expired token in the header is reported although the cookie
\* carries a valid token
C12_Witness ==
    /\ last.op = "extract_access"
    /\ BothLocations
    /\ CookieOutcome("access").err = ""
    /\ last.err = "ExpiredSignatureError"
    /\ last.jwt = EmptyDict

\* The Authorization header of the last request, and its parts
AuthorizationSent == "Authorization" \in DOMAIN last.request.headers
AuthorizationParts == Split(last.request.headers["Authorization"])

\* The header has the shape the configured header type requires
WellShaped ==
    IF Falsy(config.header_type)
    THEN Len(AuthorizationParts) = 1
    ELSE Len(AuthorizationParts) = 2 /\ AuthorizationParts[1] = config.header_type

(* C13: on the header path an absent header fails with                     *)
(* NoAuthorizationError, and every header value that is sent and has not   *)
(* the required shape (two parts, the first the header type; one part when *)
(* no header type is configured) fails with InvalidHeaderError,            *)
(* whitespace-only values included.  An empty value is allowed to count as *)
(* absent or as malformed.                                                 *)
C13_HeaderShapeErrors ==
    \A type \in {"access", "refresh"} :
        (last.op = ExtractOp(type) /\ config.token_location = {"headers"})
        => /\ ~AuthorizationSent => last.err = "NoAuthorizationError"
           /\ (AuthorizationSent /\ last.request.headers["Authorization"] = PyStr(""))
              => last.err \in {"NoAuthorizationError", "InvalidHeaderError"}
           /\ (/\ AuthorizationSent
               /\ last.request.headers["Authorization"] # PyStr("")
               /\ ~WellShaped)
              => last.err = "InvalidHeaderError"

\* C13 witness: a whitespace-only header under the header type 'Bearer' ends
\* in an IndexError
C13_Witness ==
    /\ last.op = "extract_access"
    /\ config.token_location = {"headers"}
    /\ config.header_type = PyStr("Bearer")
    /\ AuthorizationSent
    /\ last.request.headers["Authorization"] = Wire(<<Space>>)
    /\ last.err = "IndexError"

\* The claims a decoded token is required to carry
RequiredClaims(data) ==
    /\ "jti" \in DOMAIN data /\ IsStr(data["jti"]) /\ data["jti"] # PyStr("")
    /\ "identity" \in DOMAIN data
    /\ "type" \in DOMAIN data /\ data["type"] \in {PyStr("access"), PyStr("refresh")}
    /\ data["type"] = PyStr("access")
       => /\ "fresh" \in DOMAIN data /\ IsBool(data["fresh"])
          /\ "user_claims" \in DOMAIN data /\ IsDict(data["user_claims"])

\* The clock has not reached the instant the exp of the token names
BeforeExp(t) == now < PayloadOf(t)["exp"].n * TicksPerSecond

(* C14: a correctly signed, unexpired token is decoded exactly when it     *)
(* carries jti as a non-empty string, an identity, a type of access or     *)
(* refresh and, for an access token, a boolean fresh and a dict            *)
(* user_claims; one that does not fails with JWTDecodeError.               *)
C14_DecodeRequiresClaims ==
    \A t \in issued :
        (last.op = "decode" /\ WellSigned(t) /\ BeforeExp(t))
        => IF RequiredClaims(PayloadOf(t))
           THEN last.err = "" /\ last.jwt = PayloadOf(t)
           ELSE last.err = "JWTDecodeError"

\* C14 witness: a token whose jti is the empty string is decoded
C14_Witness ==
    /\ last.op = "decode"
    /\ last.err = ""
    /\ last.jwt["jti"] = PyStr("")
    /\ \E t \in issued : WellSigned(t) /\ BeforeExp(t) /\ last.jwt = PayloadOf(t)

\* The lifetime the configuration gives a token of this type
ExpiresOf(data) ==
    IF data["type"] = PyStr("access") THEN config.access_expires ELSE config.refresh_expires

\* The claim set the issuer makes for a login or a refresh, at the codec's
\* resolution
IssuerClaims(data) ==
    /\ DOMAIN data = {"exp", "iat", "nbf", "jti", "identity", "type"}
                     \cup (IF data["type"] = PyStr("access")
                           THEN {"fresh", "user_claims"} ELSE {})
                     \cup (IF CsrfInToken THEN {"csrf"} ELSE {})
    /\ data["identity"] \in {PyStr(username) : username \in Usernames}
    /\ data["type"] = PyStr("access") => IsBool(data["fresh"]) /\ data["user_claims"] = PyDict
    /\ CsrfInToken => IsStr(data["csrf"]) /\ data["csrf"] # data["jti"]
    /\ data["nbf"] = data["iat"]
    /\ data["iat"].n <= timegm(utcnow).n
    /\ data["exp"].n = data["iat"].n + ExpiresOf(data)

ListedIdentity == last.op = "tokens/identity" /\ last.err = ""

\* Each record returned carries the flag its own jti's revoke and unrevoke
\* calls have left
OwnFlags == \A rec \in last.ret : rec.revoked = (ledger[rec.token["jti"]] = "revoked")

(* C16 as stated: after three logins for one identity and any revoke calls *)
(* on those tokens, the listing of that identity returns exactly 3         *)
(* records, each with the revoked flag of its own jti.                     *)
C16_ThreeLoginsThreeRecords ==
    (ListedIdentity /\ Cardinality(IssuedFor(last.identity)) = 2 * 3)
    => /\ Cardinality(last.ret) = 3
       /\ OwnFlags

(* C16: after three logins for one identity, each handing out an access    *)
(* and a refresh token, and any revoke calls on those tokens, the listing  *)
(* of that identity returns one record per token the issuer registered: 3  *)
(* when only refresh tokens are checked, 6 when all tokens are; each       *)
(* record carries the revoked flag of its own jti.                         *)
C16_ThreeLoginsOneRecordPerStoredToken ==
    (ListedIdentity /\ Cardinality(IssuedFor(last.identity)) = 2 * 3)
    => /\ Cardinality(last.ret) = (IF config.blacklist_checks = "all" THEN 6 ELSE 3)
       /\ {rec.token["jti"] : rec \in last.ret} = RegisteredFor(last.identity)
       /\ OwnFlags

\* C16 witness: three logins of test1 under the refresh scope, one of its
\* refresh tokens revoked and another revoked and unrevoked again, then listed
C16_Witness ==
    /\ ListedIdentity
    /\ config.blacklist_checks = "refresh"
    /\ Cardinality(IssuedFor(last.identity)) = 2 * 3
    /\ Cardinality(last.ret) = 3
    /\ Cardinality({rec \in last.ret : rec.revoked}) = 1
    /\ Cardinality({rec \in last.ret : ~rec.revoked}) = 2

(* C17: the listing of an identity returns exactly the stored records whose *)
(* token has that identity, which are the records of the tokens registered  *)
(* for it: none of another identity, none omitted, none for an identity     *)
(* without stored tokens.  The listing of all tokens returns every stored   *)
(* record, and nothing while no token has been issued.                      *)
C17_ListingsAreExact ==
    /\ ListedIdentity
       => /\ \A rec \in last.ret : rec.token["identity"] = last.identity
          /\ {rec.token["jti"] : rec \in last.ret}
                = {jti \in DOMAIN store : store[jti].token["identity"] = last.identity}
          /\ {rec.token["jti"] : rec \in last.ret} = RegisteredFor(last.identity)
          /\ \A rec \in last.ret :
                /\ rec.token = store[rec.token["jti"]].token
                /\ rec.revoked = store[rec.token["jti"]].revoked
          /\ Cardinality(last.ret) = Cardinality(RegisteredFor(last.identity))
          /\ IssuedFor(last.identity) = {} => last.ret = {}
    /\ (last.op = "tokens" /\ last.err = "")
       => /\ {rec.token["jti"] : rec \in last.ret} = DOMAIN store
          /\ \A rec \in last.ret :
                /\ rec.token = store[rec.token["jti"]].token
                /\ rec.revoked = store[rec.token["jti"]].revoked
          /\ Cardinality(last.ret) = Cardinality(DOMAIN store)
          /\ issued = {} => last.ret = {}

\* C17 witness: two identities have stored tokens and the listing of one of
\* them leaves the other's records out
C17_Witness ==
    /\ ListedIdentity
    /\ last.ret # {}
    /\ \E jti \in DOMAIN store : store[jti].token["identity"] # last.identity
    /\ Cardinality(last.ret) < Cardinality(DOMAIN store)

\* The instant a stored token expires, in ticks
ExpiresAt(token) == token["exp"].n * TicksPerSecond

(* C18: the time to live a listing computes for a token is expiresAt - now  *)
(* while now < expiresAt and exactly 0 once now >= expiresAt; it is never   *)
(* negative.                                                                *)
C18_TtlFlooredAtZero ==
    (last.op = "tokens" /\ last.err = "")
    => \A rec \in last.ret :
          /\ now < ExpiresAt(rec.token) => rec.ttl = ExpiresAt(rec.token) - now
          /\ now >= ExpiresAt(rec.token) => rec.ttl = 0
          /\ rec.ttl >= 0

\* C18 witness: a listing made after the access token has expired and before
\* the refresh token has
C18_Witness ==
    /\ last.op = "tokens"
    /\ last.err = ""
    /\ \E rec \in last.ret : now > ExpiresAt(rec.token) /\ rec.ttl = 0
    /\ \E rec \in last.ret : now < ExpiresAt(rec.token) /\ rec.ttl > 0

\* The routes that call the ledger themselves
LedgerRoutes == {"tokens", "tokens/identity", "token", "revoke", "unrevoke"}

\* The token is presented in this step on a route whose decorator takes its type
Presents(t, type) ==
    /\ last'.op \in OpsOf(type)
    /\ last'.request = _jwt_post(t)
    /\ PayloadOf(t)["type"] = PyStr(type)
    /\ ~Expired(PayloadOf(t)["exp"])

\* The ledger is disabled, or enabled without a store, or enabled with a
\* check scope that is not one of the two
Misconfigured ==
    \/ ~config.blacklist_enabled
    \/ config.blacklist_store = "None"
    \/ config.blacklist_checks \notin {"all", "refresh"}

(* C19: while the blacklist is disabled, or enabled without a store, or    *)
(* enabled with a check scope that is neither 'all' nor 'refresh', every   *)
(* ledger operation fails with the configuration error (RuntimeError) and  *)
(* touches no store: the listings, the lookup, revoke and unrevoke on      *)
(* their routes; the registration a login makes and the check a decorator  *)
(* makes when the blacklist is enabled; and check and registration called  *)
(* on any issued token.                                                     *)
C19_MisconfiguredLedgerFails ==
    [][Misconfigured
       => /\ last'.op \in LedgerRoutes
             => /\ last'.err = "RuntimeError"
                /\ last'.gets = {}
                /\ store' = store
          /\ (config.blacklist_enabled /\ last'.op = "login")
             => /\ last'.err = "RuntimeError"
                /\ store' = store
                /\ issued' = issued
          /\ \A t \in issued :
                /\ \A type \in {"access", "refresh"} :
                      (config.blacklist_enabled /\ Presents(t, type))
                      => /\ last'.err = "RuntimeError"
                         /\ last'.gets = {}
                         /\ ~last'.called
                         /\ store' = store
                /\ check_if_token_revoked(PayloadOf(t))
                     = [ok |-> FALSE, err |-> "RuntimeError", gets |-> {}]
                /\ store_token(store, PayloadOf(t), FALSE)
                     = [ok |-> FALSE, err |-> "RuntimeError", store |-> store]]_vars

\* C19 witness: the store has been taken away, and the revoke of a
\* registered, active jti has failed with the configuration error
C19_Witness ==
    /\ config.blacklist_enabled
    /\ config.blacklist_store = "None"
    /\ last.op = "revoke"
    /\ last.err = "RuntimeError"
    /\ last.jti \in DOMAIN store
    /\ ~store[last.jti].revoked

\* What the revocation check of a decorator raises for this token, "" when
\* it is not made or passes
CheckRaises(t) == IF config.blacklist_enabled THEN check_if_token_revoked(PayloadOf(t)).err ELSE ""

(* C20: when the revocation check of a request fails because the store     *)
(* cannot be reached (StoreUnavailableError) or because the ledger is      *)
(* misconfigured (RuntimeError), the request is rejected with that error:  *)
(* the view is not called and no jwt is bound to the context.              *)
C20_FailClosed ==
    \A t \in issued : \A type \in {"access", "refresh"} :
        (/\ last.op \in OpsOf(type)
         /\ last.request = _jwt_post(t)
         /\ PayloadOf(t)["type"] = PyStr(type)
         /\ ~Expired(PayloadOf(t)["exp"])
         /\ CheckRaises(t) \in {"StoreUnavailableError", "RuntimeError"})
        => /\ last.err = CheckRaises(t)
           /\ ~last.called
           /\ last.jwt = EmptyDict

\* C20 witness: a registered access token that was never revoked is turned
\* away from /protected because the store cannot be reached
C20_Witness ==
    \E t \in issued :
        /\ last.op = "protected"
        /\ last.request = _jwt_post(t)
        /\ JtiOf(t) \in DOMAIN store
        /\ ~store[JtiOf(t)].revoked
        /\ last.err = "StoreUnavailableError"
        /\ ~last.called
        /\ last.jwt = EmptyDict

\* A lookup of one token has been made under working settings
LookedUp == last.op = "token" /\ last.err \notin {"RuntimeError", "StoreUnavailableError"}

(* C21: the lookup of a stored token by its jti and the lookup by its       *)
(* encoded token return the same record, the one stored under the jti, with *)
(* exactly the two fields token and revoked; a lookup by a jti without a    *)
(* record fails with not-found (KeyError), under either name; a lookup      *)
(* given neither a jti nor an encoded token fails with ValueError.          *)
C21_LookupByJtiOrEncodedToken ==
    LookedUp
    => \A jti \in {IF last.jti # PyNone THEN last.jti
                    ELSE IF last.encoded_token # PyNone THEN JtiOf(last.encoded_token)
                    ELSE PyNone} :
          /\ jti = PyNone => last.err = "ValueError" /\ last.ret = {}
          /\ (jti # PyNone /\ jti \notin DOMAIN store)
             => last.err = "KeyError" /\ last.ret = {}
          /\ (jti # PyNone /\ jti \in DOMAIN store)
             => /\ last.err = ""
                /\ last.ret = {[token |-> store[jti].token, revoked |-> store[jti].revoked]}
                /\ \A rec \in last.ret :
                      /\ DOMAIN rec = {"token", "revoked"}
                      /\ rec.token["jti"] = jti
                /\ last.ret = get_stored_token(jti, PyNone).val
                /\ \A t \in issued :
                      JtiOf(t) = jti => last.ret = get_stored_token(PyNone, t).val

\* C21 witness: a stored, revoked refresh token is looked up by its encoded
\* token and its record is returned
C21_Witness ==
    /\ LookedUp
    /\ last.jti = PyNone
    /\ last.encoded_token \in issued
    /\ last.err = ""
    /\ \E rec \in last.ret : rec.revoked /\ rec.token["type"] = PyStr("refresh")

\* The arguments of the call are ones the encoder cannot encode: user_claims
\* that is no dict or holds what json cannot serialize, or fresh that is no bool
BadAccessArgs(args) ==
    \/ args.user_claims.t # "dict"
    \/ args.user_claims.t = "dict" /\ \E i \in 1..Len(args.user_claims.d) :
                                         args.user_claims.d[i] = "object"
    \/ args.fresh.t # "bool"

(* C22: the access token encoder fails with JWTEncodeError when user_claims *)
(* is not a JSON-serializable dict or fresh is not a bool, and the failed   *)
(* issuance returns no token and leaves the ledger as it was: no record is  *)
(* written, none is changed.                                                *)
C22_EncodeErrorWritesNothing ==
    [][(last'.op = "encode_access" /\ BadAccessArgs(last'.args))
       => /\ last'.err = "JWTEncodeError"
          /\ last'.token = PyNone
          /\ store' = store
          /\ issued' = issued]_vars

\* C22 witness: with a record already in the ledger, an issuance with a fresh
\* that is no bool and valid user_claims has failed
C22_Witness ==
    /\ last.op = "encode_access"
    /\ last.args.fresh = PyStr("yes")
    /\ last.args.user_claims = PyDictOf(<<"a">>)
    /\ last.err = "JWTEncodeError"
    /\ last.token = PyNone
    /\ config.blacklist_enabled /\ config.blacklist_checks = "all"
    /\ Cardinality(DOMAIN store) = 1

\* An encoder has returned a token in the last step
JustEncoded == last.op \in {"encode_access", "encode_refresh"} /\ last.err = ""

C24_ClaimsByType ==
    /\ \A t \in issued :
          \/ /\ PayloadOf(t)["type"] = PyStr("access")
             /\ {"fresh", "user_claims"} \subseteq DOMAIN PayloadOf(t)
             /\ PayloadOf(t)["fresh"].t = "bool"
             /\ PayloadOf(t)["user_claims"].t = "dict"
          \/ /\ PayloadOf(t)["type"] = PyStr("refresh")
             /\ {"fresh", "user_claims"} \cap DOMAIN PayloadOf(t) = {}
    /\ JustEncoded
       => IF last.op = "encode_access"
          THEN /\ PayloadOf(last.token)["type"] = PyStr("access")
               /\ PayloadOf(last.token)["fresh"] = last.args.fresh
               /\ PayloadOf(last.token)["user_claims"] = last.args.user_claims
          ELSE PayloadOf(last.token)["type"] = PyStr("refresh")

\* C24 witness: the issuer has returned a refresh token and a non-fresh
\* access token with user claims
C24_Witness ==
    /\ \E t \in issued : PayloadOf(t)["type"] = PyStr("refresh")
    /\ JustEncoded
    /\ last.op = "encode_access"
    /\ PayloadOf(last.token)["fresh"] = PyBool(FALSE)
    /\ PayloadOf(last.token)["user_claims"] = PyDictOf(<<"a">>)

\* Tokens may travel in cookies and the cookies are csrf protected
CookiesCsrfProtected == "cookies" \in config.token_location /\ config.cookie_csrf_protect

(* C25: an issued token, access or refresh, carries a csrf claim if and     *)
(* only if, when it was issued, 'cookies' was among the token locations and *)
(* the csrf protection of cookies was on; the claim is then a str.          *)
C25_CsrfClaimIffCookiesProtected ==
    \A t \in issued :
        /\ "csrf" \in DOMAIN PayloadOf(t) <=> CookiesCsrfProtected
        /\ "csrf" \in DOMAIN PayloadOf(t) => PayloadOf(t)["csrf"].t = "str"

\* C25 witness: an access and a refresh token issued with a csrf claim
C25_Witness ==
    /\ CookiesCsrfProtected
    /\ \E t \in issued :
          PayloadOf(t)["type"] = PyStr("access") /\ "csrf" \in DOMAIN PayloadOf(t)
    /\ \E t \in issued :
          PayloadOf(t)["type"] = PyStr("refresh") /\ "csrf" \in DOMAIN PayloadOf(t)

\* The record of a jti was registered when its token was issued
WasRegistered(t) == config.blacklist_enabled /\ InScope(PayloadOf(t)["type"])

(* C26: over a store that keeps a time to live, the record of a registered  *)
(* token is not dropped before the token's own exp, whatever revoke and     *)
(* unrevoke calls were made on it; so a registered token that has not       *)
(* expired and is not revoked is never turned away as revoked.              *)
C26_NoEarlyPruning ==
    \A t \in issued :
        (WasRegistered(t) /\ now < ExpiresAt(PayloadOf(t)))
        => /\ JtiOf(t) \in DOMAIN store
           /\ \A until \in store[JtiOf(t)].until : until >= ExpiresAt(PayloadOf(t))
           /\ (/\ last.op = "protected"
               /\ last.request = _jwt_post(t)
               /\ PayloadOf(t)["type"] = PyStr("access")
               /\ ledger[JtiOf(t)] = "active")
              => last.err = "" /\ last.called

\* C26 witness: late in its lifetime a registered refresh token that was
\* revoked is unrevoked, and its record is kept until after its exp
C26_Witness ==
    /\ last.op = "unrevoke"
    /\ last.prior = "revoked"
    /\ last.err = ""
    /\ \E t \in issued :
          /\ JtiOf(t) = last.jti
          /\ PayloadOf(t)["type"] = PyStr("refresh")
          /\ now > PayloadOf(t)["iat"].n * TicksPerSecond
          /\ now < ExpiresAt(PayloadOf(t))
          /\ JtiOf(t) \in DOMAIN store
          /\ ~store[JtiOf(t)].revoked
          /\ \E until \in store[JtiOf(t)].until : until >= ExpiresAt(PayloadOf(t))

\* The blacklist is enabled and holds the token's record as revoked
IsRevoked(t) ==
    /\ config.blacklist_enabled
    /\ JtiOf(t) \in DOMAIN store
    /\ store[JtiOf(t)].revoked

\* The second the token's exp names is over
PastExp(t) == now >= (PayloadOf(t)["exp"].n + 1) * TicksPerSecond

(* C27: the decorators check in the order decode, type, blacklist,          *)
(* freshness, and the first check that fails gives the error: a revoked     *)
(* refresh token on an access route gives WrongTokenError, without the      *)
(* blacklist being read; a revoked access token with fresh false on the     *)
(* fresh route gives RevokedTokenError; a revoked token that has expired    *)
(* gives ExpiredSignatureError on every decorated route, whatever its type. *)
C27_FirstFailingCheck ==
    \A t \in issued :
        (last.request = _jwt_post(t) /\ IsRevoked(t))
        => /\ (/\ last.op \in AccessOps
               /\ PayloadOf(t)["type"] = PyStr("refresh")
               /\ BeforeExp(t))
              => last.err = "WrongTokenError" /\ last.gets = {}
           /\ (/\ last.op = "protected-fresh"
               /\ PayloadOf(t)["type"] = PyStr("access")
               /\ PayloadOf(t)["fresh"] = PyBool(FALSE)
               /\ InScope(PyStr("access"))
               /\ BeforeExp(t))
              => last.err = "RevokedTokenError"
           /\ (last.op \in AccessOps \cup RefreshOps /\ PastExp(t))
              => last.err = "ExpiredSignatureError" /\ last.gets = {}

\* C27 witness: a revoked access token with fresh false has been turned away
\* from the fresh route as revoked
C27_Witness ==
    \E t \in issued :
        /\ last.request = _jwt_post(t)
        /\ last.op = "protected-fresh"
        /\ IsRevoked(t)
        /\ PayloadOf(t)["type"] = PyStr("access")
        /\ PayloadOf(t)["fresh"] = PyBool(FALSE)
        /\ last.err = "RevokedTokenError"

\* Every check of a pass on the route `op` succeeds for the token: it has
\* not expired, it is of the route's type, its record is not revoked where
\* the blacklist is consulted, and it is fresh where the route requires it
ChecksPass(t, op) ==
    /\ ~Expired(PayloadOf(t)["exp"])
    /\ PayloadOf(t)["type"] = (IF op \in RefreshOps THEN PyStr("refresh") ELSE PyStr("access"))
    /\ (config.blacklist_enabled /\ InScope(PayloadOf(t)["type"]))
       => JtiOf(t) \in DOMAIN store /\ ~store[JtiOf(t)].revoked
    /\ op = "protected-fresh" => PayloadOf(t)["fresh"] = PyBool(TRUE)

(* C28: a pass of a decorator saves the decoded claims in the context and   *)
(* calls the view only when every check has succeeded; on every rejection   *)
(* the context holds no jwt (get_raw_jwt() gives the empty dict), the view  *)
(* is not called and nothing it would do is done; each pass ends either     *)
(* authenticated or rejected with an error, and reads the blacklist at most *)
(* once.                                                                    *)
C28_BoundOnlyAfterAllChecks ==
    [][last'.op \in AccessOps \cup RefreshOps
       => /\ last'.called
             <=> \E t \in issued : last'.request = _jwt_post(t) /\ ChecksPass(t, last'.op)
          /\ last'.called
             => \E t \in issued :
                   /\ last'.request = _jwt_post(t)
                   /\ get_raw_jwt(last') = PayloadOf(t)
                   /\ get_jwt_identity(last') = PayloadOf(t)["identity"]
          /\ ~last'.called
             => /\ get_raw_jwt(last') = EmptyDict
                /\ last'.err # ""
                /\ store' = store
                /\ issued' = issued
          /\ Cardinality(last'.gets) <= 1]_vars

\* C28 witness: a pass on the fresh route that failed at the last check, the
\* freshness of the token, has left the context empty and the view uncalled
C28_Witness ==
    \E t \in issued :
        /\ last.op = "protected-fresh"
        /\ last.request = _jwt_post(t)
        /\ last.err = "FreshTokenRequired"
        /\ last.gets = {JtiOf(t)}
        /\ ~last.called
        /\ get_raw_jwt(last) = EmptyDict

\* The tokens handed out in this step that the issuer registers: refresh
\* tokens whenever the blacklist is enabled, access tokens under the scope 'all'
NewlyInScope ==
    {t \in issued' \ issued :
        /\ config.blacklist_enabled
        /\ \/ PayloadOf(t)["type"] = PyStr("refresh")
           \/ config.blacklist_checks = "all"}

(* C29: right after a successful issuance of a token in scope, the ledger   *)
(* holds one record under the token's jti, a key it did not hold before,    *)
(* with all the claims of the token and revoked false; no other record is   *)
(* added or changed, and none is added for a token out of scope.  One login *)
(* adds exactly two records under the scope 'all' and exactly one under     *)
(* the scope 'refresh'.                                                     *)
C29_IssuanceRegistersOneRecord ==
    [][(last'.op \in {"encode_access", "encode_refresh", "login"} /\ last'.err = "")
       => /\ DOMAIN store' = DOMAIN store \cup {JtiOf(t) : t \in NewlyInScope}
          /\ \A t \in NewlyInScope :
                /\ JtiOf(t) \notin DOMAIN store
                /\ store'[JtiOf(t)].token = PayloadOf(t)
                /\ store'[JtiOf(t)].revoked = FALSE
          /\ \A jti \in DOMAIN store : store'[jti] = store[jti]
          /\ Cardinality(DOMAIN store') = Cardinality(DOMAIN store) + Cardinality(NewlyInScope)
          /\ last'.op = "login"
             => Cardinality(DOMAIN store')
                  = Cardinality(DOMAIN store)
                    + (IF ~config.blacklist_enabled THEN 0
                       ELSE IF config.blacklist_checks = "all" THEN 2 ELSE 1)]_vars

\* C29 witness: a login under the scope 'all' has left two records, one for
\* each of its tokens and neither revoked
C29_Witness ==
    /\ last.op = "login"
    /\ last.err = ""
    /\ config.blacklist_enabled
    /\ config.blacklist_checks = "all"
    /\ Cardinality(issued) = 2
    /\ DOMAIN store = {JtiOf(t) : t \in issued}
    /\ \A t \in issued : store[JtiOf(t)].token = PayloadOf(t) /\ ~store[JtiOf(t)].revoked

\* A revoke or an unrevoke is made in this step, by jti or by a logout
ChangesStatus == last'.op \in {"revoke", "unrevoke", "logout"}

(* C30: revoke_token(jti) and unrevoke_token(jti) change nothing but the    *)
(* revoked flag of the record under jti: the keys, the claims of every      *)
(* record and every other record stay as they were.  So a token whose own   *)
(* record was never revoked stays usable while another token's record is    *)
(* revoked: after the access token of a login is revoked its refresh token  *)
(* still refreshes, and the access token it mints authenticates.            *)
C30_OnlyOwnFlagChanges ==
    [][/\ ChangesStatus
          => /\ DOMAIN store' = DOMAIN store
             /\ issued' = issued
             /\ \A k \in DOMAIN store :
                   /\ store'[k].token = store[k].token
                   /\ store'[k].revoked # store[k].revoked => k = last'.jti
                   /\ k # last'.jti => store'[k] = store[k]
       /\ \A t \in issued :
             (/\ last'.op \in {"protected", "refresh"}
              /\ last'.request = _jwt_post(t)
              /\ PayloadOf(t)["type"] = (IF last'.op = "refresh" THEN PyStr("refresh")
                                         ELSE PyStr("access"))
              /\ ~Expired(PayloadOf(t)["exp"])
              /\ ledger[JtiOf(t)] = "active"
              /\ \E o \in issued \ {t} : IsRevoked(o))
             => last'.called /\ last'.err = ""]_vars

\* C30 witness: with the access token of the login revoked, the access token
\* minted by its refresh token has authenticated
C30_Witness ==
    \E t \in issued, o \in issued :
        /\ last.op = "protected"
        /\ last.request = _jwt_post(t)
        /\ last.called
        /\ PayloadOf(t)["fresh"] = PyBool(FALSE)
        /\ JtiOf(t) \in DOMAIN store
        /\ PayloadOf(o)["type"] = PyStr("access")
        /\ PayloadOf(o)["fresh"] = PyBool(TRUE)
        /\ IsRevoked(o)

\* The token of the request is taken from its Authorization header
HeaderSourced(request) ==
    /\ "headers" \in config.token_location
    /\ "Authorization" \in DOMAIN request.headers

\* The token an Authorization header "Bearer <token>" carries
HeaderToken(request) == Split(request.headers["Authorization"])[2]

(* C33: the CSRF double submit check is made only on a cookie-sourced      *)
(* token, with CSRF protection on and the request's method in the checked  *)
(* set.  A cookie-sourced token outside that case is extracted exactly     *)
(* when the token itself decodes, whatever the CSRF header and the csrf    *)
(* claim are; a header-sourced token that decodes is extracted whatever    *)
(* the method, the CSRF header and the cookies are.                        *)
C33_CsrfCheckOnlyWhenProtectedMethod ==
    \A type \in {"access", "refresh"} :
        last.op = ExtractOp(type)
        => /\ (CookieSourced(last.request, type) /\ ~CsrfChecked(last.request))
              => \A r \in {_decode_jwt(CookieOf(last.request, type), config.secret_key)} :
                    /\ last.err = (IF r.ok THEN "" ELSE r.err)
                    /\ r.ok => last.jwt = r.val
           /\ HeaderSourced(last.request)
              => \A r \in {_decode_jwt(HeaderToken(last.request), config.secret_key)} :
                    /\ last.err # "CSRFError"
                    /\ r.ok => last.err = "" /\ last.jwt = r.val

\* C33 witness: with CSRF protection on, a valid cookie token sent by GET
\* without a CSRF header has been extracted
C33_Witness ==
    /\ last.op = ExtractOp("access")
    /\ CookieSourced(last.request, "access")
    /\ config.cookie_csrf_protect
    /\ last.request.method = "GET"
    /\ CsrfHeader(last.request) = PyNone
    /\ last.err = ""
    /\ last.jwt = PayloadOf(CookieOf(last.request, "access"))

\* The blacklist is enabled with this check scope
Scope(checks) == config.blacklist_enabled /\ config.blacklist_checks = checks

Leaves(th, pc) == threads[th].pc = pc /\ threads'[th].pc # pc

(* C31: with the store serializing single gets and puts, a request whose   *)
(* revocation check is made when the last completed put on its jti is that *)
(* of a revoke is refused with RevokedTokenError.  A request that passed   *)
(* its check is not checked again: its view is called whatever the store   *)
(* holds by then, /protected answers, and the revoke_token of /auth/logout *)
(* completes once its put is made.                                         *)
C31_CheckAfterRevokeIsRefused ==
    [][\A th \in Threads :
          /\ (/\ Leaves(th, "check")
              /\ threads[th].jwt["jti"] \in DOMAIN ledger
              /\ ledger[threads[th].jwt["jti"]] = "revoked")
             => /\ threads'[th].pc = "done"
                /\ threads'[th].err = "RevokedTokenError"
                /\ ~threads'[th].called
          /\ Leaves(th, "view")
             => /\ threads'[th].called
                /\ threads[th].op = "protected"
                   => threads'[th].pc = "done" /\ threads'[th].err = ""
          /\ Leaves(th, "put")
             => threads'[th].pc = "done" /\ threads'[th].err = ""]_vars

\* C31 witness: a request that passed its check before the revoke was
\* written is about to run its view, while the same token sent after the
\* revoke returned has been refused
C31_Witness ==
    \E th \in Threads, other \in Threads :
        /\ threads[th].pc = "view"
        /\ threads[th].op = "protected"
        /\ store[threads[th].jwt["jti"]].revoked
        /\ ledger[threads[th].jwt["jti"]] = "revoked"
        /\ threads[other].pc = "done"
        /\ threads[other].request = threads[th].request
        /\ threads[other].err = "RevokedTokenError"

(* C32: whatever the interleaving of the gets and puts of concurrent       *)
(* revoke_token and unrevoke_token calls, every registered token keeps its *)
(* record, the record's claims are those registered at issuance, and its   *)
(* revoked flag is the one of the last put made on its jti (that of the    *)
(* registration when none was made since); the store holds no other        *)
(* record.                                                                 *)
C32_LastPutWins ==
    /\ DOMAIN store = {JtiOf(t) : t \in issued}
    /\ \A t \in issued :
          /\ JtiOf(t) \in DOMAIN store
          /\ store[JtiOf(t)].token = PayloadOf(t)
          /\ store[JtiOf(t)].revoked = (ledger[JtiOf(t)] = "revoked")

\* C32 witness: between the get and the put of an unrevoke the put of a
\* revoke of the same jti was made, so the unrevoke holds a record that the
\* store no longer has
C32_Witness ==
    \E th \in Threads, other \in Threads :
        /\ threads[th].pc = "put"
        /\ threads[th].op = "unrevoke"
        /\ store[threads[th].jti] \notin threads[th].read
        /\ threads[other].pc = "done"
        /\ threads[other].op = "revoke"
        /\ threads[other].jti = threads[th].jti
        /\ threads[other].err = ""
        /\ store[threads[th].jti].revoked

====
